---- MODULE Spec2Model ----
(***************************************************************************)
(* projclean: the project-aware directory walker (src/src/fs.rs), its rule *)
(* parser and matcher (src/src/common.rs, src/src/fs.rs), the channel      *)
(* between the walker, the delete workers and the consumer, and the        *)
(* interactive consumer (src/src/app.rs).                                  *)
(*                                                                         *)
(* Representation.  A Rust string is a sequence of atoms.  The atoms "@",  *)
(* ",", "/", " ", "*" and "\\" are the characters the code treats          *)
(* specially; every other atom is an opaque run of ordinary characters     *)
(* ("target", "Cargo", ".toml").  A path is a sequence of names, counted   *)
(* from the root of the file system.  Option<T> is a sequence of length 0  *)
(* (None) or 1 (Some).                                                     *)
(***************************************************************************)
EXTENDS Integers, Sequences, FiniteSets, TLC

None == <<>>

Some(v) == <<v>>

IsSome(o) == o # <<>>

\* HashMap::insert on a map kept as a function
MapInsert(f, k, v) == [x \in (DOMAIN f) \cup {k} |-> IF x = k THEN v ELSE f[x]]

\* every order in which the elements of S can be iterated
Orders(S) == {s \in [1..Cardinality(S) -> S] : \A i, j \in 1..Cardinality(S) : i # j => s[i] # s[j]}

(***************************************************************************)
(* str: split_once, split, trim, as the standard library computes them     *)
(***************************************************************************)
IndexOf(s, c) ==
    IF \E i \in 1..Len(s) : s[i] = c
    THEN CHOOSE i \in 1..Len(s) : s[i] = c /\ \A j \in 1..(i - 1) : s[j] # c
    ELSE 0

split_once(s, c) ==
    LET i == IndexOf(s, c)
    IN IF i = 0 THEN None ELSE Some(<<SubSeq(s, 1, i - 1), SubSeq(s, i + 1, Len(s))>>)

RECURSIVE split(_, _)
split(s, c) ==
    LET i == IndexOf(s, c)
    IN IF i = 0 THEN <<s>>
       ELSE <<SubSeq(s, 1, i - 1)>> \o split(SubSeq(s, i + 1, Len(s)), c)

RECURSIVE trim(_)
trim(s) ==
    IF s = <<>> THEN s
    ELSE IF s[1] = " " THEN trim(Tail(s))
    ELSE IF s[Len(s)] = " " THEN trim(SubSeq(s, 1, Len(s) - 1))
    ELSE s

(***************************************************************************)
(* glob::Pattern, for the patterns the rules use: literal atoms and "*".   *)
(* Three or more "*" in a row are rejected by Pattern::new, and "**" must  *)
(* be a whole pattern component.                                           *)
(***************************************************************************)
PatternNew(p) ==
    LET comps == split(p, "/")
        bad(c) == /\ \E i \in 1..(Len(c) - 1) : c[i] = "*" /\ c[i + 1] = "*"
                  /\ c # <<"*", "*">>
    IN IF \E i \in 1..Len(comps) : bad(comps[i]) THEN None ELSE Some(p)

RECURSIVE PatternMatches(_, _)
PatternMatches(p, name) ==
    IF p = <<>> THEN name = <<>>
    ELSE IF p[1] = "*"
         THEN \/ PatternMatches(Tail(p), name)
              \/ name # <<>> /\ PatternMatches(p, Tail(name))
    ELSE /\ name # <<>>
         /\ p[1] = name[1]
         /\ PatternMatches(Tail(p), Tail(name))

(***************************************************************************)
(* Rule (common.rs)                                                        *)
(***************************************************************************)
\* the key under which from_str files a purge path: its head segment
IsPrefixOf(a, b) == Len(a) <= Len(b) /\ SubSeq(b, 1, Len(a)) = a

TargetKey(target) ==
    LET so == split_once(target, "/")
    IN IF IsSome(so) THEN so[1][1] ELSE target

\* Rule::from_str: None is Err("Invalid rule ...")
from_str(s) ==
    LET so == split_once(s, "@")
        target_paths == IF IsSome(so) THEN split(trim(so[1][1]), ",") ELSE split(s, ",")
        detects_str == IF IsSome(so) THEN trim(so[1][2]) ELSE <<>>
        globs == IF detects_str = <<>> THEN <<>> ELSE split(detects_str, ",")
        keys == {TargetKey(target_paths[i]) : i \in 1..Len(target_paths)}
        targets == [k \in keys |-> SelectSeq(target_paths, LAMBDA t : TargetKey(t) = k)]
    IN IF target_paths = <<>> THEN None
       ELSE IF \E i \in 1..Len(globs) : ~IsSome(PatternNew(globs[i])) THEN None
       ELSE Some([id |-> s, targets |-> targets, detects |-> globs])

get_id(rule) == rule.id

\* check_target that takes a trigger that the name begins with
check_target_Prefix(rule, name) ==
    IF \E k \in DOMAIN rule.targets : IsPrefixOf(k, name)
    THEN Some(rule.targets[CHOOSE k \in DOMAIN rule.targets : IsPrefixOf(k, name)])
    ELSE None

\* Rule::check_target
check_target(rule, name) ==
    IF name \in DOMAIN rule.targets THEN Some(rule.targets[name]) ELSE None

no_detect(rule) == rule.detects = <<>>

check_project(rule, name) ==
    IF no_detect(rule) THEN FALSE
    ELSE \E i \in 1..Len(rule.detects) : PatternMatches(rule.detects[i], name)

\* is_rule_no_detect that finds no rule
is_rule_no_detect_Never(config, id) == FALSE

\* Config::is_rule_no_detect: the first rule with that id decides
is_rule_no_detect(config, id) ==
    IF \E i \in 1..Len(config.rules) : config.rules[i].id = id
    THEN LET i == CHOOSE k \in 1..Len(config.rules) :
                      /\ config.rules[k].id = id
                      /\ \A j \in 1..(k - 1) : config.rules[j].id # id
         IN no_detect(config.rules[i])
    ELSE FALSE

(***************************************************************************)
(* Config (common.rs): the -t and -s predicates.  A u64 or f64 magnitude   *)
(* is a sequence of bits, most significant first and without leading       *)
(* zeros (0 is the empty sequence), so that it keeps its full width.       *)
(***************************************************************************)
DigitAtoms == <<"0", "1", "2", "3", "4", "5", "6", "7", "8", "9">>

IsDigit(a) == \E i \in 1..10 : DigitAtoms[i] = a

DigitVal(a) == (CHOOSE i \in 1..10 : DigitAtoms[i] = a) - 1

IsNumeral(s) == s # <<>> /\ \A i \in 1..Len(s) : IsDigit(s[i])

Zeros(n) == [i \in 1..n |-> 0]

\* the bits of n
RECURSIVE BitsOfInt(_)
BitsOfInt(n) == IF n = 0 THEN <<>> ELSE BitsOfInt(n \div 2) \o <<n % 2>>

\* l * m + c, for a magnitude l in limbs of 16 bits, the least significant
\* first, and small m and c
RECURSIVE MulAddLimbs(_, _, _)
MulAddLimbs(l, m, c) ==
    IF l = <<>> THEN (IF c = 0 THEN <<>> ELSE <<c>>)
    ELSE <<(l[1] * m + c) % 65536>> \o MulAddLimbs(Tail(l), m, (l[1] * m + c) \div 65536)

\* the value of the decimal numeral s, in limbs
RECURSIVE LimbsOfNumeral(_)
LimbsOfNumeral(s) ==
    IF s = <<>> THEN <<>>
    ELSE MulAddLimbs(LimbsOfNumeral(SubSeq(s, 1, Len(s) - 1)), 10, DigitVal(s[Len(s)]))

\* the limbs l in bits
RECURSIVE BitsOfLimbs(_)
BitsOfLimbs(l) ==
    IF l = <<>> THEN <<>>
    ELSE LET high == BitsOfLimbs(Tail(l))
             low == BitsOfInt(l[1])
         IN IF high = <<>> THEN low ELSE high \o Zeros(16 - Len(low)) \o low

\* the value of the decimal numeral s, in bits
BitsOfNumeral(s) == BitsOfLimbs(LimbsOfNumeral(s))

\* the value of the bits b, for values that an Int of the model holds
RECURSIVE IntOfBits(_)
IntOfBits(b) == IF b = <<>> THEN 0 ELSE 2 * IntOfBits(SubSeq(b, 1, Len(b) - 1)) + b[Len(b)]

\* b + 1
RECURSIVE IncBits(_)
IncBits(b) ==
    IF b = <<>> THEN <<1>>
    ELSE IF b[Len(b)] = 0 THEN SubSeq(b, 1, Len(b) - 1) \o <<1>>
    ELSE IncBits(SubSeq(b, 1, Len(b) - 1)) \o <<0>>

\* a < b
LessBits(a, b) ==
    \/ Len(a) < Len(b)
    \/ /\ Len(a) = Len(b)
       /\ \E i \in 1..Len(a) :
              /\ a[i] < b[i]
              /\ \A j \in 1..(i - 1) : a[j] = b[j]

\* the significand of an f64 holds 53 bits
MantissaBits == 53

\* the width of a u64
U64Bits == 64

\* the f64 nearest to the integer b, ties to even
RoundToF64(b) ==
    IF Len(b) <= MantissaBits THEN b
    ELSE LET m == SubSeq(b, 1, MantissaBits)
             rest == SubSeq(b, MantissaBits + 1, Len(b))
             sticky == \E i \in 2..Len(rest) : rest[i] = 1
             up == rest[1] = 1 /\ (sticky \/ m[MantissaBits] = 1)
         IN (IF up THEN IncBits(m) ELSE m) \o Zeros(Len(rest))

\* str::parse::<f64> of a string of digits with or without a sign: the
\* nearest f64, as [neg, bits]; None for the empty string, a lone sign and
\* a string with any other character in it
parse_f64(s) ==
    LET signed == s # <<>> /\ s[1] \in {"+", "-"}
        body == IF signed THEN Tail(s) ELSE s
    IN IF IsNumeral(body)
       THEN Some([neg |-> signed /\ s[1] = "-",
                  bits |-> RoundToF64(BitsOfNumeral(body))])
       ELSE None

\* `value as u64` of the integral f64 f: the cast saturates at both ends
F64AsU64(f) ==
    IF f.neg THEN <<>>
    ELSE IF Len(f.bits) > U64Bits THEN [i \in 1..U64Bits |-> 1]
    ELSE f.bits

\* f * 2^k for an f64 f: exact
F64MulPow2(f, k) == [f EXCEPT !.bits = IF @ = <<>> THEN <<>> ELSE @ \o Zeros(k)]

\* str::parse::<usize> of a string of digits with or without '+'; the values
\* of the model fit an Int
parse_usize(s) ==
    LET body == IF s # <<>> /\ s[1] = "+" THEN Tail(s) ELSE s
    IN IF IsNumeral(body)
       THEN Some(IntOfBits(BitsOfNumeral(body)))
       ELSE None

\* UNITS.into_iter().rev(): 'K', 'M', 'G', 'T'
UnitsRev == <<"K", "M", "G", "T">>

\* common.rs 48-56
extract_order(value) ==
    IF value # <<>> /\ value[1] = "+" THEN <<"Greater", Tail(value)>>
    ELSE IF value # <<>> /\ value[1] = "-" THEN <<"Less", Tail(value)>>
    ELSE <<"Equal", value>>

\* common.rs 58-69: the first unit that is the suffix of value decides
parse_size(value) ==
    IF \E i \in 1..4 : value # <<>> /\ value[Len(value)] = UnitsRev[i]
    THEN LET i == CHOOSE k \in 1..4 : value[Len(value)] = UnitsRev[k]
             f == parse_f64(SubSeq(value, 1, Len(value) - 1))
         IN IF IsSome(f) THEN Some(F64AsU64(F64MulPow2(f[1], 10 * i))) ELSE None
    ELSE LET f == parse_f64(value)
         IN IF IsSome(f) THEN Some(F64AsU64(f[1])) ELSE None

\* common.rs 33-38: Some(config with the predicate), or None: Err
set_time(c, time) ==
    LET r == extract_order(time)
        t == parse_usize(r[2])
    IN IF IsSome(t) THEN Some([c EXCEPT !.time = Some(<<t[1], r[1]>>)]) ELSE None

\* common.rs 40-45
set_size(c, size) ==
    LET r == extract_order(size)
        v == parse_size(r[2])
    IN IF IsSome(v) THEN Some([c EXCEPT !.size = Some(<<v[1], r[1]>>)]) ELSE None

(***************************************************************************)
(* Checker (fs.rs): the per-directory matcher.  matches maps a rule id to  *)
(* its CheckMatches {purge: name -> purge paths, check: names that fired   *)
(* a detector}.                                                            *)
(***************************************************************************)
CheckMatchesDefault == [purge |-> <<>>, check |-> {}]

\* Checker::new
CheckerNew == <<>>

\* the body of the loop of Checker::check, for rules[i..]
RECURSIVE CheckFrom(_, _, _, _)
CheckFrom(matches, rules, i, name) ==
    IF i > Len(rules) THEN matches
    ELSE LET rule == rules[i]
             m == IF get_id(rule) \in DOMAIN matches
                  THEN matches[get_id(rule)] ELSE CheckMatchesDefault
             purges == check_target(rule, name)
             purge1 == IF IsSome(purges) THEN MapInsert(m.purge, name, purges[1])
                       ELSE m.purge
             check1 == IF check_project(rule, name) THEN m.check \cup {name} ELSE m.check
         IN CheckFrom(MapInsert(matches, get_id(rule), [purge |-> purge1, check |-> check1]),
                      rules, i + 1, name)

\* Checker::check
check(matches, config, name) == CheckFrom(matches, config.rules, 1, name)

\* the loop of the read-dir callback that feeds the names to the checker
RECURSIVE CheckNames(_, _, _)
CheckNames(matches, config, names) ==
    IF names = <<>> THEN matches
    ELSE CheckNames(check(matches, config, names[1]), config, Tail(names))

\* Checker::to_matches, visiting the rule ids of the HashMap in the order
\* `order`; the result maps a name to <<rule_id, purges>>
RECURSIVE ToMatchesFrom(_, _, _, _, _)
ToMatchesFrom(matches, config, order, i, output) ==
    IF i > Len(order) THEN output
    ELSE LET rule_id == order[i]
             m == matches[rule_id]
             take == /\ DOMAIN m.purge # {}
                     /\ (m.check # {} \/ is_rule_no_detect(config, rule_id))
             output1 == IF take
                        THEN [n \in (DOMAIN output) \cup (DOMAIN m.purge) |->
                                 IF n \in DOMAIN output THEN output[n]
                                 ELSE <<rule_id, m.purge[n]>>]
                        ELSE output
         IN ToMatchesFrom(matches, config, order, i + 1, output1)

\* to_matches that visits the first rule id of the HashMap only
to_matches_FirstOnly(matches, config, order) ==
    ToMatchesFrom(matches, config, IF order = <<>> THEN <<>> ELSE <<order[1]>>, 1, <<>>)

to_matches(matches, config, order) == ToMatchesFrom(matches, config, order, 1, <<>>)

\* the orders in which a HashMap with these keys can be iterated
HashOrders(matches) == Orders(DOMAIN matches)

(***************************************************************************)
(* Paths and the file system.  fs maps every existing absolute path to     *)
(* [kind, len, age]: kind is "dir", "file" or "locked" (a directory whose  *)
(* listing cannot be read), len the length of a file in bytes, age the     *)
(* seconds since the last modification (None when it cannot be measured).  *)
(***************************************************************************)
VARIABLES
    args,       \* the command line: [rules, exclude, time, size, cwd]
    config,     \* Config: [rules, exclude, time, size]
    windows,    \* TRUE when the build targets Windows (std::path is per platform)
    fs,         \* the file system
    mode,       \* "print" | "delete_all" | "interactive" (the flags of start)
    iter,       \* the jwalk iterator of search: what it has still to yield
    wpc,        \* where the search thread is: "iter" | "purge" | "done"
    cur,        \* the matched entry whose purge paths are being processed
    pi,         \* index of the next purge path of cur
    result,     \* what search returned: "none" | "ok" | "err"
    running,    \* the AtomicBool the ctrl-c handler clears
    chan,       \* the mpsc channel: messages sent and not yet received
    rxOpen,     \* FALSE once the Receiver has been dropped
    tasks,      \* closures handed to a ThreadPool and not yet finished
    cpc,        \* where the consumer is: "recv" | "wait" | "done"
    app,        \* the fields of App (interactive consumer)
    panics,     \* the threads that have panicked
    sent,       \* history: every tx.send of the search thread
    recvd,      \* history: every message the consumer has received
    printed,    \* history: the paths ls has printed
    spawned,    \* history: every path handed to spawn_delete_path, with the uid
                \* of its item in the list of the app (0: fs.rs, no list)
    cancelAt    \* history: the state of the scan when the flag was cleared

vars == <<args, config, windows, fs, mode, iter, wpc, cur, pi, result, running, chan,
          rxOpen, tasks, cpc, app, panics, sent, recvd, printed, spawned,
          cancelAt>>

\* the scan root: the canonicalized --cwd directory (main.rs set_working_dir)
Entry == << <<"w">> >>

IsPrefix(base, path) ==
    Len(base) <= Len(path) /\ SubSeq(path, 1, Len(base)) = base

\* Path::parent
Parent(path) == SubSeq(path, 1, Len(path) - 1)

\* Path::exists
exists(f, path) == path \in DOMAIN f

\* DirEntry::file_name
file_name(path) == path[Len(path)]

\* the entries of directory d
ChildrenOf(f, d) == {p \in DOMAIN f : Len(p) = Len(d) + 1 /\ IsPrefix(d, p)}

\* PathBuf::push of one part of a purge path.  An empty part adds no
\* component.  On Windows a part that starts with a separator has a root and
\* replaces everything but the drive prefix; elsewhere "\\" is an ordinary
\* character of a name.
push(path, part) ==
    IF part = <<>> THEN path
    ELSE IF windows /\ part[1] = "\\" THEN <<Tail(part)>>
    ELSE Append(path, part)

RECURSIVE PushAll(_, _)
PushAll(path, parts) ==
    IF parts = <<>> THEN path ELSE PushAll(push(path, parts[1]), Tail(parts))

\* fs.rs 59-62: entry_path, then every part of the purge path but the first
ResolvePurge(entry_path, purge) == PushAll(entry_path, Tail(split(purge, "/")))

\* Path::strip_prefix: None is Err(StripPrefixError)
strip_prefix(path, base) ==
    IF IsPrefix(base, path) THEN Some(SubSeq(path, Len(base) + 1, Len(path))) ELSE None

RECURSIVE SumLen(_, _)
SumLen(f, ps) ==
    IF ps = {} THEN 0
    ELSE LET p == CHOOSE q \in ps : TRUE
         IN (IF f[p].kind = "file" THEN f[p].len ELSE 0) + SumLen(f, ps \ {p})

\* du: the lengths of the files below path; Err (None) when a directory at
\* or below path cannot be read; the root entry itself contributes nothing
du(f, path) ==
    LET below == {p \in DOMAIN f : IsPrefix(path, p)}
    IN IF \E p \in below : f[p].kind = "locked" THEN None
       ELSE Some(SumLen(f, below \ {path}))

\* last_modified(path).ok()
last_modified(f, path) == f[path].age

\* compare that takes "more than" for "at least"
compare_AtLeast(order, expect, target) ==
    CASE order = "Less" -> target < expect
      [] order = "Equal" -> target = expect
      [] order = "Greater" -> target >= expect

\* fs.rs compare
compare(order, expect, target) ==
    CASE order = "Less" -> target < expect
      [] order = "Equal" -> target = expect
      [] order = "Greater" -> target > expect

\* compare::<u64>, on bits
compare_u64(order, expect, target) ==
    CASE order = "Less" -> LessBits(target, expect)
      [] order = "Equal" -> target = expect
      [] order = "Greater" -> LessBits(expect, target)

\* (time.as_secs_f64() / 86400.0).ceil()
CeilDays(secs) == (secs + 86399) \div 86400

\* PathItem::new
PathItemNew(path, relative_path, rule_id, time, size) ==
    [path |-> path, relative_path |-> relative_path, rule_id |-> rule_id,
     time |-> time, size |-> size, state |-> "Normal"]

AddPath(item) == [type |-> "AddPath", item |-> item]

DoneSearch == [type |-> "DoneSearch"]

SetPathDeleted(path) == [type |-> "SetPathDeleted", path |-> path]

PutError(path) == [type |-> "PutError", path |-> path]

\* Sender::send: the message is queued unless the Receiver is gone
Send(c, msg) == IF rxOpen THEN Append(c, msg) ELSE c

(***************************************************************************)
(* search (fs.rs): the process_read_dir callback                           *)
(***************************************************************************)
Item(t, path, st, client_state) ==
    [t |-> t, path |-> path, st |-> st, client_state |-> client_state]

IsExcluded(name) == name \in config.exclude

\* CallbackMatches without the `continue` for excluded names
CallbackMatches_NoExclude(children, order) ==
    LET names == [i \in 1..Len(children) |-> file_name(children[i])]
    IN to_matches(CheckNames(CheckerNew, config, names), config, order)

\* fs.rs 26-35: feed every name that is not excluded to a fresh Checker
\* (children is the in the order the directory was read)
CallbackMatches(children, order) ==
    LET names == [i \in 1..Len(children) |-> file_name(children[i])]
        kept == SelectSeq(names, LAMBDA n : ~IsExcluded(n))
    IN to_matches(CheckNames(CheckerNew, config, kept), config, order)

\* the orders in which to_matches may visit the rules for this listing
CallbackOrders(children) ==
    LET names == [i \in 1..Len(children) |-> file_name(children[i])]
        kept == SelectSeq(names, LAMBDA n : ~IsExcluded(n))
    IN HashOrders(CheckNames(CheckerNew, config, kept))

\* ChildItems that leaves read_children_path alone for a matched child
ChildItems_NoPrune(f, child, matches) ==
    LET name == file_name(child)
        matched == ~IsExcluded(name) /\ name \in DOMAIN matches
        state == IF matched THEN Some(matches[name]) ELSE None
        descend == f[child].kind # "file" /\ ~IsExcluded(name)
    IN <<Item("entry", child, "", state)>>
       \o (IF descend THEN <<Item("dir", child, "queued", None)>> ELSE <<>>)

\* ChildItems that lists an excluded directory
ChildItems_DescendExcluded(f, child, matches) ==
    LET name == file_name(child)
        matched == ~IsExcluded(name) /\ name \in DOMAIN matches
        state == IF matched THEN Some(matches[name]) ELSE None
        descend == f[child].kind # "file" /\ ~matched
    IN <<Item("entry", child, "", state)>>
       \o (IF descend THEN <<Item("dir", child, "queued", None)>> ELSE <<>>)

\* fs.rs 36-47: what the iterator holds for one child after the callback: the
\* entry, with its client_state, and its own listing still to be read when
\* read_children_path was left alone
ChildItems(f, child, matches) ==
    LET name == file_name(child)
        matched == ~IsExcluded(name) /\ name \in DOMAIN matches
        state == IF matched THEN Some(matches[name]) ELSE None
        descend == f[child].kind # "file" /\ ~IsExcluded(name) /\ ~matched
    IN <<Item("entry", child, "", state)>>
       \o (IF descend THEN <<Item("dir", child, "queued", None)>> ELSE <<>>)

RECURSIVE AllChildItems(_, _, _)
AllChildItems(f, children, matches) ==
    IF children = <<>> THEN <<>>
    ELSE ChildItems(f, children[1], matches) \o AllChildItems(f, Tail(children), matches)

Splice(s, i, items) == SubSeq(s, 1, i - 1) \o items \o SubSeq(s, i + 1, Len(s))

\* a worker of the walk takes up the listing of a directory
ReadDirStart(i) ==
    /\ iter[i].t = "dir"
    /\ iter[i].st = "queued"
    /\ iter' = [iter EXCEPT ![i].st = "running"]
    /\ UNCHANGED <<args, config, windows, fs, mode, wpc, cur, pi, result, running, chan,
                   rxOpen, tasks, cpc, app, panics, sent, recvd, printed, spawned, cancelAt>>

\* the listing is read and the callback runs on it; a directory that cannot
\* be read (or is gone) becomes one Err result
ReadDirFinish(i) ==
    /\ iter[i].t = "dir"
    /\ iter[i].st = "running"
    /\ LET d == iter[i].path
       IN IF exists(fs, d) /\ fs[d].kind = "dir"
          THEN \E children \in Orders(ChildrenOf(fs, d)) :
                 \E order \in CallbackOrders(children) :
                     iter' = Splice(iter, i,
                         AllChildItems(fs, children, CallbackMatches(children, order)))
          ELSE iter' = Splice(iter, i, <<Item("err", d, "", None)>>)
    /\ UNCHANGED <<args, config, windows, fs, mode, wpc, cur, pi, result, running, chan,
                   rxOpen, tasks, cpc, app, panics, sent, recvd, printed, spawned,
                   cancelAt>>

(***************************************************************************)
(* search (fs.rs): the loop over the results of the walk                   *)
(***************************************************************************)
Log(msg, entry_path) == [msg |-> msg, entry |-> entry_path, running |-> running]

\* fs.rs 59-80 for one purge path: <<"skip">> (a continue), <<"err">> (the ?
\* of strip_prefix) or <<"item", the PathItem to send>>
PurgeOutcome(f, entry_path, rule_id, purge) ==
    LET path == ResolvePurge(entry_path, purge)
        time == last_modified(f, path)
        size == du(f, path)
        relative_path == strip_prefix(path, Entry)
    IN IF ~exists(f, path) THEN <<"skip">>
       ELSE IF /\ IsSome(config.time) /\ IsSome(time)
               /\ ~compare(config.time[1][2], config.time[1][1], CeilDays(time[1]))
            THEN <<"skip">>
       ELSE IF /\ IsSome(config.size) /\ IsSome(size)
               /\ ~compare_u64(config.size[1][2], config.size[1][1], BitsOfInt(size[1]))
            THEN <<"skip">>
       ELSE IF ~IsSome(relative_path) THEN <<"err">>
       ELSE <<"item", PathItemNew(path, relative_path[1], rule_id, time, size)>>

\* WalkNext without the `return Ok(())` after the send of DoneSearch
WalkNext_NoReturn ==
    /\ wpc = "iter"
    /\ iter # <<>>
    /\ Head(iter).t # "dir"
    /\ iter' = Tail(iter)
    /\ IF ~running
       THEN /\ chan' = Send(chan, DoneSearch)
            /\ sent' = Append(sent, Log(DoneSearch, <<>>))
       ELSE UNCHANGED <<chan, sent>>
    /\ IF Head(iter).t = "entry" /\ IsSome(Head(iter).client_state)
       THEN /\ wpc' = "purge"
            /\ cur' = [path |-> Head(iter).path,
                       rule_id |-> Head(iter).client_state[1][1],
                       purges |-> Head(iter).client_state[1][2]]
            /\ pi' = 1
       ELSE UNCHANGED <<wpc, cur, pi>>
    /\ UNCHANGED <<args, config, windows, fs, mode, result, running, rxOpen, tasks, cpc, app,
                   panics, recvd, printed, spawned, cancelAt>>

\* WalkNext without the poll of the flag
WalkNext_NoPoll ==
    /\ wpc = "iter"
    /\ iter # <<>>
    /\ Head(iter).t # "dir"
    /\ iter' = Tail(iter)
    /\ IF Head(iter).t = "entry" /\ IsSome(Head(iter).client_state)
       THEN /\ wpc' = "purge"
            /\ cur' = [path |-> Head(iter).path,
                       rule_id |-> Head(iter).client_state[1][1],
                       purges |-> Head(iter).client_state[1][2]]
            /\ pi' = 1
       ELSE UNCHANGED <<wpc, cur, pi>>
    /\ UNCHANGED <<args, config, windows, fs, mode, result, running, chan, rxOpen, tasks, cpc,
                   app, panics, sent, recvd, printed, spawned, cancelAt>>

\* fs.rs 50-57: the next result of the walk; the flag is polled once per
\* result, before anything else is done with it
WalkNext ==
    /\ wpc = "iter"
    /\ iter # <<>>
    /\ Head(iter).t # "dir"
    /\ iter' = Tail(iter)
    /\ IF ~running
       THEN /\ chan' = Send(chan, DoneSearch)
            /\ sent' = Append(sent, Log(DoneSearch, <<>>))
            /\ wpc' = "done"
            /\ result' = "ok"
            /\ UNCHANGED <<cur, pi>>
       ELSE IF Head(iter).t = "entry" /\ IsSome(Head(iter).client_state)
       THEN /\ wpc' = "purge"
            /\ cur' = [path |-> Head(iter).path,
                       rule_id |-> Head(iter).client_state[1][1],
                       purges |-> Head(iter).client_state[1][2]]
            /\ pi' = 1
            /\ UNCHANGED <<chan, sent, result>>
       ELSE UNCHANGED <<wpc, cur, pi, chan, sent, result>>
    /\ UNCHANGED <<args, config, windows, fs, mode, running, rxOpen, tasks, cpc, app,
                   panics, recvd, printed, spawned, cancelAt>>

\* fs.rs 58-82: one turn of the loop over the purge paths of the entry
WalkPurge ==
    /\ wpc = "purge"
    /\ LET out == PurgeOutcome(fs, cur.path, cur.rule_id, cur.purges[pi])
           more == pi < Len(cur.purges)
       IN IF out[1] = "err"
          THEN /\ wpc' = "done"
               /\ result' = "err"
               /\ cur' = <<>>
               /\ pi' = 0
               /\ UNCHANGED <<chan, sent>>
          ELSE /\ IF out[1] = "skip"
                  THEN UNCHANGED <<chan, sent>>
                  ELSE /\ chan' = Send(chan, AddPath(out[2]))
                       /\ sent' = Append(sent, Log(AddPath(out[2]), cur.path))
               /\ wpc' = IF more THEN "purge" ELSE "iter"
               /\ cur' = IF more THEN cur ELSE <<>>
               /\ pi' = IF more THEN pi + 1 ELSE 0
               /\ result' = result
    /\ UNCHANGED <<args, config, windows, fs, mode, iter, running, rxOpen, tasks, cpc, app,
                   panics, recvd, printed, spawned, cancelAt>>

\* fs.rs 87-89: the walk is exhausted
WalkEnd ==
    /\ wpc = "iter"
    /\ iter = <<>>
    /\ chan' = Send(chan, DoneSearch)
    /\ sent' = Append(sent, Log(DoneSearch, <<>>))
    /\ wpc' = "done"
    /\ result' = "ok"
    /\ UNCHANGED <<args, config, windows, fs, mode, iter, cur, pi, running, rxOpen, tasks,
                   cpc, app, panics, recvd, printed, spawned, cancelAt>>

\* main.rs 55-57: the ctrl-c handler
Cancel ==
    /\ running
    /\ running' = FALSE
    /\ cancelAt' = Some([inflight |-> Cardinality({i \in 1..Len(iter) :
                                         iter[i].t = "dir" /\ iter[i].st = "running"}),
                         wpc |-> wpc, cur |-> cur, pi |-> pi, sent |-> Len(sent)])
    /\ UNCHANGED <<args, config, windows, fs, mode, iter, wpc, cur, pi, result, chan, rxOpen,
                   tasks, cpc, app, panics, sent, recvd, printed, spawned>>

(***************************************************************************)
(* The non-interactive consumers (fs.rs ls, delete_all) and the closures   *)
(* they hand to the thread pool                                            *)
(***************************************************************************)
\* remove_dir_all: Ok iff the path is a directory all of which can be read
RemoveOk(f, path) ==
    /\ exists(f, path)
    /\ f[path].kind = "dir"
    /\ \A p \in DOMAIN f : IsPrefix(path, p) => f[p].kind # "locked"

\* the file system after path and everything below it has been removed
Removed(f, path) == [p \in {q \in DOMAIN f : ~IsPrefix(path, q)} |-> f[p]]

Task(kind, path) == [id |-> Len(spawned) + 1, kind |-> kind, path |-> path]

\* fs.rs 92-103: one turn of the loop of ls
LsRecv ==
    /\ mode = "print"
    /\ cpc = "recv"
    /\ chan # <<>>
    /\ chan' = Tail(chan)
    /\ recvd' = Append(recvd, Head(chan))
    /\ IF Head(chan).type = "AddPath"
       THEN /\ printed' = Append(printed, Head(chan).item.path)
            /\ UNCHANGED <<cpc, rxOpen>>
       ELSE IF Head(chan).type = "DoneSearch"
       THEN /\ cpc' = "done"
            /\ rxOpen' = FALSE
            /\ printed' = printed
       ELSE UNCHANGED <<printed, cpc, rxOpen>>
    /\ UNCHANGED <<args, config, windows, fs, mode, iter, wpc, cur, pi, result, running,
                   tasks, app, panics, sent, spawned, cancelAt>>

\* fs.rs 108-116: one turn of the loop of delete_all
DeleteAllRecv ==
    /\ mode = "delete_all"
    /\ cpc = "recv"
    /\ chan # <<>>
    /\ chan' = Tail(chan)
    /\ recvd' = Append(recvd, Head(chan))
    /\ IF Head(chan).type = "AddPath"
       THEN /\ tasks' = tasks \cup {Task("fs", Head(chan).item.path)}
            /\ spawned' = Append(spawned, [path |-> Head(chan).item.path, item |-> 0])
            /\ UNCHANGED <<cpc, rxOpen>>
       ELSE IF Head(chan).type = "DoneSearch"
       THEN /\ cpc' = "wait"
            /\ rxOpen' = FALSE
            /\ UNCHANGED <<tasks, spawned>>
       ELSE UNCHANGED <<tasks, spawned, cpc, rxOpen>>
    /\ UNCHANGED <<args, config, windows, fs, mode, iter, wpc, cur, pi, result, running,
                   app, panics, sent, printed, cancelAt>>

\* delete_all that returns without wg.wait()
DeleteAllWait_NoWait ==
    /\ mode = "delete_all"
    /\ cpc = "wait"
    /\ cpc' = "done"
    /\ UNCHANGED <<args, config, windows, fs, mode, iter, wpc, cur, pi, result, running,
                   chan, rxOpen, tasks, app, panics, sent, recvd, printed, spawned, cancelAt>>

\* fs.rs 117: wg.wait() returns when every clone of the WaitGroup is dropped
DeleteAllWait ==
    /\ mode = "delete_all"
    /\ cpc = "wait"
    /\ tasks = {}
    /\ cpc' = "done"
    /\ UNCHANGED <<args, config, windows, fs, mode, iter, wpc, cur, pi, result, running,
                   chan, rxOpen, tasks, app, panics, sent, recvd, printed, spawned, cancelAt>>

\* fs.rs 122-128: the closure of spawn_delete_path, run by a pool thread
FsDeleteRun(task) ==
    /\ task \in tasks
    /\ task.kind = "fs"
    /\ fs' = IF RemoveOk(fs, task.path) THEN Removed(fs, task.path) ELSE fs
    /\ tasks' = tasks \ {task}
    /\ UNCHANGED <<args, config, windows, mode, iter, wpc, cur, pi, result, running, chan,
                   rxOpen, cpc, app, panics, sent, recvd, printed, spawned,
                   cancelAt>>

(***************************************************************************)
(* The interactive consumer (app.rs)                                       *)
(***************************************************************************)
\* the file names of the trees in the byte order that Path::cmp gives them
NameOrder ==
    <<<<"Cargo", ".toml">>, <<"debug">>, <<"p">>, <<"q">>, <<"target">>, <<"w">>, <<"x">>>>

NameRank(name) == CHOOSE i \in 1..Len(NameOrder) : NameOrder[i] = name

\* Path::cmp(a, b) = Less: component by component, a proper prefix first
RECURSIVE PathLess(_, _)
PathLess(a, b) ==
    IF b = <<>> THEN FALSE
    ELSE IF a = <<>> THEN TRUE
    ELSE IF a[1] = b[1] THEN PathLess(Tail(a), Tail(b))
    ELSE NameRank(a[1]) < NameRank(b[1])

unwrap_or_default(o) == IF IsSome(o) THEN o[1] ELSE 0

\* app.rs 337-344; None when `% self.items.len()` divides by zero
next(a) ==
    IF ~IsSome(a.selected) THEN Some([a EXCEPT !.selected = Some(0)])
    ELSE IF Len(a.items) = 0 THEN None
    ELSE Some([a EXCEPT !.selected = Some((a.selected[1] + 1) % Len(a.items))])

\* app.rs 347-354; None when `% self.items.len()` divides by zero
previous(a) ==
    IF ~IsSome(a.selected) THEN Some([a EXCEPT !.selected = Some(0)])
    ELSE IF Len(a.items) = 0 THEN None
    ELSE Some([a EXCEPT !.selected =
                   Some((a.selected[1] + (Len(a.items) - 1)) % Len(a.items))])

\* app.rs 357-363
begin(a) ==
    IF a.items = <<>> THEN [a EXCEPT !.selected = None]
    ELSE [a EXCEPT !.selected = Some(0)]

\* app.rs 365-371
end(a) ==
    IF a.items = <<>> THEN [a EXCEPT !.selected = None]
    ELSE [a EXCEPT !.selected = Some(Len(a.items) - 1)]

\* app.rs 373-376: slice::sort_by is stable
order_by_path(a) ==
    LET s == a.items
        Less(x, y) == PathLess(x.relative_path, y.relative_path)
        Before(i) == {j \in 1..Len(s) :
                         \/ Less(s[j], s[i])
                         \/ ~Less(s[i], s[j]) /\ j < i}
    IN [a EXCEPT !.items =
           [r \in 1..Len(s) |->
               s[CHOOSE i \in 1..Len(s) : Cardinality(Before(i)) = r - 1]]]

\* app.rs 378-381: largest first, stable
order_by_size(a) ==
    LET s == a.items
        Less(x, y) == unwrap_or_default(x.size) > unwrap_or_default(y.size)
        Before(i) == {j \in 1..Len(s) :
                         \/ Less(s[j], s[i])
                         \/ ~Less(s[i], s[j]) /\ j < i}
    IN [a EXCEPT !.items =
           [r \in 1..Len(s) |->
               s[CHOOSE i \in 1..Len(s) : Cardinality(Before(i)) = r - 1]]]

\* app.rs 383-385; uid is not a field of PathItem: it names the item in the
\* properties, since the sorts move items within the list
add_item(a, item) ==
    [a EXCEPT !.items = Append(@, item @@ [uid |-> Len(a.items) + 1])]

\* start_deleting_item without the test of the item's state
start_deleting_item_NoStateCheck(a) ==
    IF ~IsSome(a.selected) THEN Some([app |-> a, out |-> <<>>])
    ELSE IF a.selected[1] >= Len(a.items) THEN None
    ELSE LET index == a.selected[1] + 1
             item == a.items[index]
         IN IF ~IsSome(item.size)
            THEN Some([app |-> a, out |-> <<>>])
            ELSE Some([app |-> [a EXCEPT !.items[index].state = "StartDeleting"],
                       out |-> <<[path |-> item.path, item |-> item.uid]>>])

\* start_deleting_item handing out the relative path of the item
start_deleting_item_Relative(a) ==
    IF ~IsSome(a.selected) THEN Some([app |-> a, out |-> <<>>])
    ELSE IF a.selected[1] >= Len(a.items) THEN None
    ELSE LET index == a.selected[1] + 1
             item == a.items[index]
         IN IF item.state # "Normal" \/ ~IsSome(item.size)
            THEN Some([app |-> a, out |-> <<>>])
            ELSE Some([app |-> [a EXCEPT !.items[index].state = "StartDeleting"],
                       out |-> <<[path |-> item.relative_path, item |-> item.uid]>>])

\* app.rs 402-414; None when self.items[index] is out of bounds; out holds
\* the path handed to spawn_delete_path, if any
start_deleting_item(a) ==
    IF ~IsSome(a.selected) THEN Some([app |-> a, out |-> <<>>])
    ELSE IF a.selected[1] >= Len(a.items) THEN None
    ELSE LET index == a.selected[1] + 1
             item == a.items[index]
         IN IF item.state # "Normal" \/ ~IsSome(item.size)
            THEN Some([app |-> a, out |-> <<>>])
            ELSE Some([app |-> [a EXCEPT !.items[index].state = "StartDeleting"],
                       out |-> <<[path |-> item.path, item |-> item.uid]>>])

\* app.rs 387-391
delete_item(a) == start_deleting_item(a)

\* delete_all_items without the test of the items' state
delete_all_items_NoStateCheck(a) ==
    LET hit == {i \in 1..Len(a.items) : IsSome(a.items[i].size)}
        Nth(k) == CHOOSE i \in hit : Cardinality({j \in hit : j < i}) = k - 1
    IN Some([app |-> [a EXCEPT !.items =
                         [i \in 1..Len(a.items) |->
                             IF i \in hit
                             THEN [a.items[i] EXCEPT !.state = "StartDeleting"]
                             ELSE a.items[i]]],
             out |-> [k \in 1..Cardinality(hit) |->
                         [path |-> a.items[Nth(k)].path,
                          item |-> a.items[Nth(k)].uid]]])

\* delete_all_items without the test of the items' size
delete_all_items_NoSizeCheck(a) ==
    LET hit == {i \in 1..Len(a.items) : a.items[i].state = "Normal"}
        Nth(k) == CHOOSE i \in hit : Cardinality({j \in hit : j < i}) = k - 1
    IN Some([app |-> [a EXCEPT !.items =
                         [i \in 1..Len(a.items) |->
                             IF i \in hit
                             THEN [a.items[i] EXCEPT !.state = "StartDeleting"]
                             ELSE a.items[i]]],
             out |-> [k \in 1..Cardinality(hit) |->
                         [path |-> a.items[Nth(k)].path,
                          item |-> a.items[Nth(k)].uid]]])

\* app.rs 393-400: the items are visited, and their paths dispatched, in the
\* order of the list
delete_all_items(a) ==
    LET hit == {i \in 1..Len(a.items) :
                   a.items[i].state = "Normal" /\ IsSome(a.items[i].size)}
        Nth(k) == CHOOSE i \in hit : Cardinality({j \in hit : j < i}) = k - 1
    IN Some([app |-> [a EXCEPT !.items =
                         [i \in 1..Len(a.items) |->
                             IF i \in hit
                             THEN [a.items[i] EXCEPT !.state = "StartDeleting"]
                             ELSE a.items[i]]],
             out |-> [k \in 1..Cardinality(hit) |->
                         [path |-> a.items[Nth(k)].path,
                          item |-> a.items[Nth(k)].uid]]])

\* app.rs 416-423: the first item of the list with that path
set_item_deleted(a, path) ==
    LET found == {i \in 1..Len(a.items) : a.items[i].path = path}
    IN IF found = {} THEN [app |-> a, size |-> None]
       ELSE LET i == CHOOSE i \in found : \A j \in found : i <= j
            IN [app |-> [a EXCEPT !.items[i].state = "Deleted"],
                size |-> a.items[i].size]

\* app.rs 429-434
clear_tmp_state(a) == [a EXCEPT !.error = None, !.show_help = FALSE]

\* app.rs 137-204: the keys are 'q' (as Esc, ctrl-c), 'j' (as Down), 'k' (as
\* Up), '?', Home, 'G' (as End), 'g', 'o' (an arm of `_`), 'p', 's', 'd', 'a'
\* and ' '.  None: the handler panics.
Keys == {"q", "j", "k", "?", "Home", "G", "g", "o", "p", "s", "d", "a", " "}

handle_key_event(a, key) ==
    LET a1 == clear_tmp_state(a)
        Plain(b) == Some([app |-> b, out |-> <<>>, set |-> TRUE])
        Moved(o) == IF IsSome(o) THEN Plain(o[1]) ELSE None
        After(last, b) ==
            IF a1.last_keycode = Some(last)
            THEN Some([app |-> b, out |-> <<>>, set |-> FALSE])
            ELSE Plain(a1)
        Deleted(o, set) ==
            IF IsSome(o) THEN Some([app |-> o[1].app, out |-> o[1].out, set |-> set])
            ELSE None
        r == CASE key = "q" -> Plain([a1 EXCEPT !.app_state = "Exit"])
               [] key = "j" -> Moved(next(a1))
               [] key = "k" -> Moved(previous(a1))
               [] key = "?" -> Plain([a1 EXCEPT !.show_help = TRUE])
               [] key = "Home" -> Plain(begin(a1))
               [] key = "G" -> Plain(end(a1))
               [] key = "g" -> After("g", begin(a1))
               [] key = "p" -> After("o", order_by_path(a1))
               [] key = "s" -> After("o", order_by_size(a1))
               [] key = "d" -> IF a1.last_keycode = Some("d")
                               THEN Deleted(delete_item(a1), FALSE)
                               ELSE Plain(a1)
               [] key = "a" -> IF a1.last_keycode = Some("d")
                               THEN Deleted(delete_all_items(a1), FALSE)
                               ELSE Plain(a1)
               [] key = " " -> Deleted(delete_item(a1), TRUE)
               [] OTHER -> Plain(a1)
    IN IF ~IsSome(r) THEN None
       ELSE Some([app |-> IF r[1].set
                          THEN [r[1].app EXCEPT !.last_keycode = Some(key)]
                          ELSE r[1].app,
                  out |-> r[1].out])

\* app.rs 128-135, 137-204, 456-458: a key event is read and handled; the
\* loop of run (app.rs 81-106) ends when the state is Exit, and run drops the
\* Receiver; a panic of the handler unwinds run and drops it too
KeyPress(key) ==
    /\ mode = "interactive"
    /\ cpc = "recv"
    /\ LET r == handle_key_event(app, key)
       IN IF ~IsSome(r)
          THEN /\ cpc' = "panic"
               /\ rxOpen' = FALSE
               /\ UNCHANGED <<app, tasks, spawned>>
          ELSE /\ app' = r[1].app
               /\ tasks' = tasks \cup
                      {[id |-> Len(spawned) + k, kind |-> "app",
                        path |-> r[1].out[k].path] : k \in 1..Len(r[1].out)}
               /\ spawned' = spawned \o r[1].out
               /\ IF r[1].app.app_state = "Exit"
                  THEN cpc' = "done" /\ rxOpen' = FALSE
                  ELSE UNCHANGED <<cpc, rxOpen>>
    /\ UNCHANGED <<args, config, windows, fs, iter, wpc, cur, pi, result, running, chan,
                   mode, panics, sent, recvd, printed, cancelAt>>

\* handle_next_message that puts the items being deleted back to Normal when
\* an error arrives
HandleNextMessage_ErrorResets ==
    /\ mode = "interactive"
    /\ cpc = "recv"
    /\ chan # <<>>
    /\ chan' = Tail(chan)
    /\ recvd' = Append(recvd, Head(chan))
    /\ LET msg == Head(chan)
       IN app' =
            CASE msg.type = "AddPath" ->
                   add_item([app EXCEPT !.total_size =
                                 @ + unwrap_or_default(msg.item.size)], msg.item)
              [] msg.type = "DoneSearch" ->
                   [app EXCEPT !.app_state = "SearchingDone"]
              [] msg.type = "SetPathDeleted" ->
                   LET d == set_item_deleted(app, msg.path)
                   IN [d.app EXCEPT !.total_saved_size = @ + unwrap_or_default(d.size)]
              [] msg.type = "PutError" ->
                   [app EXCEPT !.error = Some(msg.path),
                               !.items = [i \in 1..Len(app.items) |->
                                   IF app.items[i].state = "StartDeleting"
                                   THEN [app.items[i] EXCEPT !.state = "Normal"]
                                   ELSE app.items[i]]]
    /\ UNCHANGED <<args, config, windows, fs, mode, iter, wpc, cur, pi, result, running,
                   rxOpen, tasks, cpc, panics, sent, printed, spawned, cancelAt>>

\* app.rs 108-126: try_recv, and the message handled
HandleNextMessage ==
    /\ mode = "interactive"
    /\ cpc = "recv"
    /\ chan # <<>>
    /\ chan' = Tail(chan)
    /\ recvd' = Append(recvd, Head(chan))
    /\ LET msg == Head(chan)
       IN app' =
            CASE msg.type = "AddPath" ->
                   add_item([app EXCEPT !.total_size =
                                 @ + unwrap_or_default(msg.item.size)], msg.item)
              [] msg.type = "DoneSearch" ->
                   [app EXCEPT !.app_state = "SearchingDone"]
              [] msg.type = "SetPathDeleted" ->
                   LET d == set_item_deleted(app, msg.path)
                   IN [d.app EXCEPT !.total_saved_size = @ + unwrap_or_default(d.size)]
              [] msg.type = "PutError" ->
                   [app EXCEPT !.error = Some(msg.path)]
    /\ UNCHANGED <<args, config, windows, fs, mode, iter, wpc, cur, pi, result, running,
                   rxOpen, tasks, cpc, panics, sent, printed, spawned, cancelAt>>

\* delete_path that reports nothing when the removal fails
AppDeleteRun_SilentFailure(task) ==
    /\ task \in tasks
    /\ task.kind = "app"
    /\ tasks' = tasks \ {task}
    /\ fs' = IF RemoveOk(fs, task.path) THEN Removed(fs, task.path) ELSE fs
    /\ IF ~RemoveOk(fs, task.path) THEN UNCHANGED <<chan, panics>>
       ELSE IF rxOpen
       THEN chan' = Append(chan, SetPathDeleted(task.path)) /\ UNCHANGED panics
       ELSE panics' = panics \cup {task.id} /\ UNCHANGED chan
    /\ UNCHANGED <<args, config, windows, mode, iter, wpc, cur, pi, result, running,
                   rxOpen, cpc, app, sent, recvd, printed, spawned, cancelAt>>

\* app.rs 460-468: delete_path, run by a pool thread; a send to a dropped
\* Receiver fails, and the unwrap then panics in that thread
AppDeleteRun(task) ==
    /\ task \in tasks
    /\ task.kind = "app"
    /\ tasks' = tasks \ {task}
    /\ fs' = IF RemoveOk(fs, task.path) THEN Removed(fs, task.path) ELSE fs
    /\ LET msg == IF RemoveOk(fs, task.path) THEN SetPathDeleted(task.path)
                  ELSE PutError(task.path)
       IN IF rxOpen
          THEN chan' = Append(chan, msg) /\ UNCHANGED panics
          ELSE panics' = panics \cup {task.id} /\ UNCHANGED chan
    /\ UNCHANGED <<args, config, windows, mode, iter, wpc, cur, pi, result, running,
                   rxOpen, cpc, app, sent, recvd, printed, spawned, cancelAt>>

(***************************************************************************)
(* The inputs: file trees, rule strings, exclude lists                     *)
(***************************************************************************)
\* rules per configuration
MaxRules == 2

Dir == [kind |-> "dir", len |-> 0, age |-> Some(0)]

File == [kind |-> "file", len |-> 1, age |-> Some(0)]

nTarget == <<"target">>

nCargo == <<"Cargo", ".toml">>

nDebug == <<"debug">>

pP == Entry \o << <<"p">> >>

pQ == Entry \o << <<"q">> >>

Opt(f) == {<<>>, f}

\* /w is the scan root and /x a directory outside it; below /w a project
\* directory p with or without its manifest and its target (a directory,
\* with or without debug and a manifest of its own, or a plain file), and
\* perhaps a manifest somewhere else: beside p, or in a second directory q
TargetVariants ==
    LET t == pP \o <<nTarget>>
    IN {<<>>, t :> File}
       \cup {(t :> Dir) @@ d @@ c : d \in Opt((t \o <<nDebug>>) :> Dir),
                                    c \in Opt((t \o <<nCargo>>) :> File)}

Trees ==
    {(Entry :> Dir) @@ (<< <<"x">> >> :> Dir) @@ (pP :> Dir) @@ tv @@ pc @@ other :
        tv \in TargetVariants,
        pc \in Opt((pP \o <<nCargo>>) :> File),
        other \in {<<>>, (Entry \o <<nCargo>>) :> File,
                   (pQ :> Dir) @@ ((pQ \o <<nCargo>>) :> File)}}

\* "target@Cargo.toml", "target", "target,target/debug@*.toml", "target/\x"
RulePool ==
    { <<"target", "@", "Cargo", ".toml">>,
      <<"target">>,
      <<"target", ",", "target", "/", "debug", "@", "*", ".toml">>,
      <<"target", "/", "\\", "x">> }

\* "target@Cargo.toml", "target,target/debug@*.toml", "target,target@Cargo.toml"
AppRulePool ==
    { <<"target", "@", "Cargo", ".toml">>,
      <<"target", ",", "target", "/", "debug", "@", "*", ".toml">>,
      <<"target", ",", "target", "@", "Cargo", ".toml">> }

\* the platforms on which a configuration behaves differently: std::path
\* differs only for a purge path with a part that starts with "\\"
Platforms(strs) ==
    IF \E i \in 1..Len(strs) : \E j \in 1..(Len(strs[i]) - 1) :
           strs[i][j] = "/" /\ strs[i][j + 1] = "\\"
    THEN BOOLEAN ELSE {FALSE}

RuleStrings == UNION {[1..n -> RulePool] : n \in 1..MaxRules}

ExcludeLists == {{}, {nDebug}, {nTarget}, {nCargo}}

\* main.rs init_config: add_rule for every rule string, in order
RECURSIVE AddRules(_, _)
AddRules(rules, strs) ==
    IF strs = <<>> THEN Some(rules)
    ELSE IF ~IsSome(from_str(strs[1])) THEN None
    ELSE AddRules(Append(rules, from_str(strs[1])[1]), Tail(strs))

AppDefault ==
    [items |-> <<>>, selected |-> None, total_size |-> 0, total_saved_size |-> 0,
     show_help |-> FALSE, error |-> None, last_keycode |-> None,
     app_state |-> "Searching"]

ConfigDefault == [rules |-> <<>>, exclude |-> {}, time |-> None, size |-> None]

\* main.rs 149-176: Some(config), or None: the ? on set_time, set_size or
\* add_rule.  a.rules holds the rule strings of the command line (with none,
\* select_rules would prompt for them)
init_config(a) ==
    LET c0 == [ConfigDefault EXCEPT !.exclude = a.exclude]
        c1 == IF IsSome(a.time) THEN set_time(c0, a.time[1]) ELSE Some(c0)
        c2 == IF IsSome(c1) /\ IsSome(a.size) THEN set_size(c1[1], a.size[1]) ELSE c1
        r == AddRules(<<>>, a.rules)
    IN IF IsSome(c2) /\ IsSome(r) THEN Some([c2[1] EXCEPT !.rules = r[1]]) ELSE None

\* main.rs 248-250
is_existing_directory(f, path) == path \in DOMAIN f /\ f[path].kind # "file"

\* main.rs 178-200: Some(the scan root), or None: Err
set_working_dir(f, a) == IF is_existing_directory(f, a.cwd) THEN Some(a.cwd) ELSE None

\* the command line of a run
Args(strs, excl, time, size, cwd) ==
    [rules |-> strs, exclude |-> excl, time |-> time, size |-> size, cwd |-> cwd]

\* the process before start has looked at its command line a
Boot(tree, a, win, m) ==
    /\ args = a
    /\ config = ConfigDefault
    /\ windows = win
    /\ fs = tree
    /\ mode = m
    /\ iter = <<>>
    /\ wpc = "args"
    /\ cur = <<>>
    /\ pi = 0
    /\ result = "none"
    /\ running = TRUE
    /\ chan = <<>>
    /\ rxOpen = TRUE
    /\ tasks = {}
    /\ cpc = "recv"
    /\ app = AppDefault
    /\ panics = {}
    /\ sent = <<>>
    /\ recvd = <<>>
    /\ printed = <<>>
    /\ spawned = <<>>
    /\ cancelAt = None

\* the state when start has spawned the search thread (main.rs 66-76), with
\* the predicates that set_time and set_size have stored for -t time and
\* -s size
StartWith(tree, strs, excl, win, m, time, size) ==
    /\ IsSome(init_config(Args(strs, excl, time, size, Entry)))
    /\ args = Args(strs, excl, time, size, Entry)
    /\ config = init_config(Args(strs, excl, time, size, Entry))[1]
    /\ windows = win
    /\ fs = tree
    /\ mode = m
    /\ iter = <<Item("entry", Entry, "", None), Item("dir", Entry, "queued", None)>>
    /\ wpc = "iter"
    /\ cur = <<>>
    /\ pi = 0
    /\ result = "none"
    /\ running = TRUE
    /\ chan = <<>>
    /\ rxOpen = TRUE
    /\ tasks = {}
    /\ cpc = "recv"
    /\ app = AppDefault
    /\ panics = {}
    /\ sent = <<>>
    /\ recvd = <<>>
    /\ printed = <<>>
    /\ spawned = <<>>
    /\ cancelAt = None

\* the same without filters
Start(tree, strs, excl, win, m) == StartWith(tree, strs, excl, win, m, None, None)

(***************************************************************************)
(* SpecWalk: the scan alone, over every tree, rule list and exclude list   *)
(***************************************************************************)
InitWalk ==
    \E tree \in Trees, strs \in RuleStrings, excl \in ExcludeLists :
        \E win \in Platforms(strs) : Start(tree, strs, excl, win, "print")

NextWalk ==
    \/ \E i \in 1..Len(iter) : ReadDirStart(i)
    \/ \E i \in 1..Len(iter) : ReadDirFinish(i)
    \/ WalkNext
    \/ WalkPurge
    \/ WalkEnd

SpecWalk == InitWalk /\ [][NextWalk]_vars

(***************************************************************************)
(* Spec: the scan, the ctrl-c handler, and the consumers of --print and    *)
(* --delete-all with the pool of delete_all                                *)
(***************************************************************************)
\* a manifest and a target directory in p, with or without target/debug
\* and perhaps a second project q with a manifest and a target of its own
OneProject ==
    {t \in Trees :
        /\ (pP \o <<nCargo>>) \in DOMAIN t
        /\ (pP \o <<nTarget>>) \in DOMAIN t
        /\ t[pP \o <<nTarget>>].kind = "dir"
        /\ \A p \in DOMAIN t : file_name(p) = nCargo => Parent(p) = pP}

SecondProject ==
    (pQ :> Dir) @@ ((pQ \o <<nCargo>>) :> File) @@ ((pQ \o <<nTarget>>) :> Dir)

\* the second project goes with the trees that have nothing below p/target
TreesScan ==
    OneProject \cup
        {t @@ SecondProject : t \in {u \in OneProject : \A p \in DOMAIN u : Len(p) <= 3}}

\* the rules of RulePool that need no manifest
ScanRuleStrings ==
    UNION {[1..n -> RulePool \ {<<"target", "@", "Cargo", ".toml">>}] : n \in 1..MaxRules}

Init ==
    \E tree \in TreesScan, strs \in ScanRuleStrings, m \in {"print", "delete_all"} :
        \E win \in Platforms(strs) : Start(tree, strs, {}, win, m)

Next ==
    \/ \E i \in 1..Len(iter) : ReadDirStart(i)
    \/ \E i \in 1..Len(iter) : ReadDirFinish(i)
    \/ WalkNext
    \/ WalkPurge
    \/ WalkEnd
    \/ Cancel
    \/ LsRecv
    \/ DeleteAllRecv
    \/ DeleteAllWait
    \/ \E task \in tasks : FsDeleteRun(task)

Spec == Init /\ [][Next]_vars

(***************************************************************************)
(* SpecRules: init_config turning the rule strings of the command line     *)
(* into the rules of the configuration, before anything is spawned         *)
(***************************************************************************)
\* atoms of a rule string written out in full
MaxRuleLen == 2

RuleAtoms == {"target", ",", "@", "*", "/"}

\* every string of at most MaxRuleLen atoms, the empty string among them, the
\* rules of the other specifications, "@Cargo.toml", "target@***" and
\* "target, target @*"
RuleInputs ==
    UNION {[1..n -> RuleAtoms] : n \in 0..MaxRuleLen}
        \cup RulePool \cup AppRulePool
        \cup {<<"@", "Cargo", ".toml">>, <<"target", "@", "*", "*", "*">>,
              <<"target", ",", " ", "target", " ", "@", "*">>}

\* common.rs 27-31: Some(config with the rule pushed), or None: the ? on parse
add_rule(c, value) ==
    IF IsSome(from_str(value))
    THEN Some([c EXCEPT !.rules = Append(@, from_str(value)[1])])
    ELSE None

\* main.rs 171-173: one turn of `for rule in rules { config.add_rule(&rule)? }`;
\* on Err start returns it and main exits with code 1 (main.rs 60-63)
AddRule(value) ==
    /\ wpc = "init"
    /\ result = "none"
    /\ Len(config.rules) < MaxRules
    /\ IF IsSome(add_rule(config, value))
       THEN config' = add_rule(config, value)[1] /\ UNCHANGED result
       ELSE result' = "err" /\ UNCHANGED config
    /\ args' = [args EXCEPT !.rules = Append(@, value)]
    /\ UNCHANGED <<windows, fs, mode, iter, wpc, cur, pi, running, chan, rxOpen, tasks,
                   cpc, app, panics, sent, recvd, printed, spawned, cancelAt>>

\* main.rs 66-68: start before init_config has added a rule
InitRules ==
    /\ args = Args(<<>>, {}, None, None, Entry)
    /\ config = ConfigDefault
    /\ windows = FALSE
    /\ fs = (Entry :> Dir)
    /\ mode = "print"
    /\ iter = <<>>
    /\ wpc = "init"
    /\ cur = <<>>
    /\ pi = 0
    /\ result = "none"
    /\ running = TRUE
    /\ chan = <<>>
    /\ rxOpen = TRUE
    /\ tasks = {}
    /\ cpc = "recv"
    /\ app = AppDefault
    /\ panics = {}
    /\ sent = <<>>
    /\ recvd = <<>>
    /\ printed = <<>>
    /\ spawned = <<>>
    /\ cancelAt = None

NextRules == \E value \in RuleInputs : AddRule(value)

SpecRules == InitRules /\ [][NextRules]_vars

(***************************************************************************)
(* SpecFilter: the scan with the age and size filters                      *)
(***************************************************************************)
Locked == [kind |-> "locked", len |-> 0, age |-> Some(0)]

\* ages in seconds: none, 1 s (1 day in ceiling-days), 1 day and 1 s (2
\* days), or unknown: the modification time lies in the future and
\* duration_since fails
Ages == {Some(0), Some(1), Some(86401), None}

\* p with its manifest and a target of some age that is empty, holds a file
\* of 1 or 2 bytes, or holds a debug that cannot be read
TreesFilter ==
    LET base == (Entry :> Dir) @@ (<< <<"x">> >> :> Dir) @@ (pP :> Dir)
                    @@ ((pP \o <<nCargo>>) :> File)
        t == pP \o <<nTarget>>
    IN {base @@ (t :> [Dir EXCEPT !.age = a]) @@ c :
           a \in Ages,
           c \in {<<>>, (t \o <<nCargo>>) :> File,
                  (t \o <<nCargo>>) :> [File EXCEPT !.len = 2],
                  (t \o <<nDebug>>) :> Locked}}

\* the values of -t and of -s: less than, exactly, more than 1
Filters == {None, Some(<<"-", "1">>), Some(<<"1">>), Some(<<"+", "1">>)}

InitFilter ==
    \E tree \in TreesFilter, time \in Filters, size \in Filters :
        StartWith(tree, << <<"target", "@", "Cargo", ".toml">> >>, {}, FALSE, "print",
                  time, size)

SpecFilter == InitFilter /\ [][NextWalk]_vars

(***************************************************************************)
(* SpecDetect: the scan of projects whose directories carry names that     *)
(* detector globs and triggers match                                       *)
(***************************************************************************)
\* "target@target*", "target@debug", "target@Cargo.toml", "target",
\* "target/\x" and "target/debug@Cargo.toml"
DetectRulePool ==
    { <<"target", "@", "target", "*">>,
      <<"target", "@", "debug">>,
      <<"target", "@", "Cargo", ".toml">>,
      <<"target">>,
      <<"target", "/", "\\", "x">>,
      <<"target", "/", "debug", "@", "Cargo", ".toml">> }

\* p holds the directory target, perhaps a directory debug, and perhaps an
\* entry named Cargo.toml that is a file or a directory; target is empty or
\* holds a directory debug or a directory target of its own
TreesDetect ==
    LET base == (Entry :> Dir) @@ (<< <<"x">> >> :> Dir) @@ (pP :> Dir)
                    @@ ((pP \o <<nTarget>>) :> Dir)
    IN {base @@ d @@ c @@ t :
           d \in Opt((pP \o <<nDebug>>) :> Dir),
           c \in {<<>>, (pP \o <<nCargo>>) :> File, (pP \o <<nCargo>>) :> Dir},
           t \in {<<>>, (pP \o <<nTarget, nDebug>>) :> Dir,
                  (pP \o <<nTarget, nTarget>>) :> Dir}}

InitDetect ==
    \E tree \in TreesDetect, r \in DetectRulePool :
        Start(tree, <<r>>, {}, FALSE, "print")

SpecDetect == InitDetect /\ [][NextWalk]_vars

(***************************************************************************)
(* SpecExclude: the scan with whole projects excluded by name: p is a      *)
(* project with its manifest (cargo/ of the fixtures), q a directory with  *)
(* a target and no manifest (cargo-not/), with a manifest, or with a       *)
(* project named p of its own                                              *)
(***************************************************************************)
TreesExclude ==
    LET project(d) == (d :> Dir) @@ ((d \o <<nCargo>>) :> File)
                          @@ ((d \o <<nTarget>>) :> Dir)
        base == (Entry :> Dir) @@ (<< <<"x">> >> :> Dir) @@ project(pP)
    IN {base @@ t @@ q :
           t \in Opt((pP \o <<nTarget, nDebug>>) :> Dir),
           q \in {<<>>,
                  (pQ :> Dir) @@ ((pQ \o <<nTarget>>) :> Dir),
                  project(pQ),
                  (pQ :> Dir) @@ project(pQ \o << <<"p">> >>)}}

ExcludeListsProjects == {{}, {<<"p">>}, {<<"q">>}, {nTarget}, {nCargo}}

InitExclude ==
    \E tree \in TreesExclude, excl \in ExcludeListsProjects,
       r \in {<<"target", "@", "Cargo", ".toml">>, <<"target">>} :
        Start(tree, <<r>>, excl, FALSE, "print")

SpecExclude == InitExclude /\ [][NextWalk]_vars

(***************************************************************************)
(* SpecStart: the process from its command line on: start reads the        *)
(* predicates, the rules and the directory, and only then spawns the       *)
(* search thread, whose messages --print or --delete-all consume           *)
(***************************************************************************)
\* start that spawns the search thread whatever init_config and
\* set_working_dir return
StartCmd_SpawnBeforeCheck ==
    /\ wpc = "args"
    /\ LET c == init_config(args)
           entry == set_working_dir(fs, args)
       IN /\ config' = IF IsSome(c) THEN c[1] ELSE config
          /\ iter' = <<Item("entry", Entry, "", None),
                       Item("dir", Entry, "queued", None)>>
          /\ wpc' = "iter"
          /\ UNCHANGED <<result, cpc>>
    /\ UNCHANGED <<args, windows, fs, mode, cur, pi, running, chan, rxOpen, tasks, app,
                   panics, sent, recvd, printed, spawned, cancelAt>>

\* main.rs 66-76 (and 58-63 on Err): start up to the spawn of the search
\* thread; on Err main exits with code 1 and nothing has been spawned
StartCmd ==
    /\ wpc = "args"
    /\ LET c == init_config(args)
           entry == set_working_dir(fs, args)
       IN IF IsSome(c) /\ IsSome(entry)
          THEN /\ config' = c[1]
               /\ iter' = <<Item("entry", entry[1], "", None),
                            Item("dir", entry[1], "queued", None)>>
               /\ wpc' = "iter"
               /\ UNCHANGED <<result, cpc>>
          ELSE /\ result' = "err"
               /\ wpc' = "failed"
               /\ cpc' = "done"
               /\ UNCHANGED <<config, iter>>
    /\ UNCHANGED <<args, windows, fs, mode, cur, pi, running, chan, rxOpen, tasks, app,
                   panics, sent, recvd, printed, spawned, cancelAt>>

\* 2^53 - 1, 2^53, 2^53 + 1, 2^53 + 3, 2^64 - 1 and 10^20 - 1
WideNumerals ==
    { <<"9", "0", "0", "7", "1", "9", "9", "2", "5", "4", "7", "4", "0", "9", "9", "1">>,
      <<"9", "0", "0", "7", "1", "9", "9", "2", "5", "4", "7", "4", "0", "9", "9", "2">>,
      <<"9", "0", "0", "7", "1", "9", "9", "2", "5", "4", "7", "4", "0", "9", "9", "3">>,
      <<"9", "0", "0", "7", "1", "9", "9", "2", "5", "4", "7", "4", "0", "9", "9", "5">>,
      <<"1", "8", "4", "4", "6", "7", "4", "4", "0", "7", "3", "7", "0", "9", "5", "5",
        "1", "6", "1", "5">>,
      <<"9", "9", "9", "9", "9", "9", "9", "9", "9", "9", "9", "9", "9", "9", "9", "9",
        "9", "9", "9", "9">> }

\* 0, 1, 2, 10, 07, 1023 and the wide ones
Numerals ==
    { <<"0">>, <<"1">>, <<"2">>, <<"1", "0">>, <<"0", "7">>, <<"1", "0", "2", "3">> }
        \cup WideNumerals

\* the values of -s: a numeral with or without a sign and a unit
SizeArgs ==
    {Some(sign \o n \o unit) : sign \in {<<>>, <<"+">>, <<"-">>}, n \in Numerals,
                               unit \in {<<>>, <<"K">>, <<"M">>, <<"G">>, <<"T">>}}

\* values of -t and -s that are no predicate: "x", "", "+", "K", "1x"
BadPredicates == {Some(<<"x">>), Some(<<>>), Some(<<"+">>), Some(<<"K">>), Some(<<"1", "x">>)}

\* rule lists with and without a rule that does not parse ("target@***")
RuleListsStart ==
    { << <<"target", "@", "Cargo", ".toml">> >>,
      << <<"target", "@", "*", "*", "*">> >>,
      << <<"target", "@", "Cargo", ".toml">>, <<"target", "@", "*", "*", "*">> >> }

\* values of --cwd: the scan root, a file, a path that does not exist
CwdArgs == {Entry, pP \o <<nCargo>>, << <<"missing">> >>}

\* the command lines: every value of -s on a rule that parses, and whatever
\* can be wrong with whatever else
ArgsStart ==
    {Args(<< <<"target", "@", "Cargo", ".toml">> >>, {}, None, size, Entry) :
        size \in SizeArgs}
    \cup {Args(strs, {}, time, size, cwd) :
             strs \in RuleListsStart, time \in {None} \cup BadPredicates,
             size \in {None} \cup BadPredicates, cwd \in CwdArgs}

\* p with its manifest and an empty target that is 1 s old
TreeStart ==
    (Entry :> Dir) @@ (<< <<"x">> >> :> Dir) @@ (pP :> Dir)
        @@ ((pP \o <<nCargo>>) :> File)
        @@ ((pP \o <<nTarget>>) :> [Dir EXCEPT !.age = Some(1)])

\* the trees of the filters with the predicates that compare with 1, and
\* one tree with the other command lines
InitStart ==
    \E m \in {"print", "delete_all"} :
        \/ \E tree \in TreesFilter, time \in Filters, size \in Filters :
               Boot(tree, Args(<< <<"target", "@", "Cargo", ".toml">> >>, {}, time, size,
                               Entry), FALSE, m)
        \/ \E a \in ArgsStart : Boot(TreeStart, a, FALSE, m)

NextStart ==
    \/ StartCmd
    \/ NextWalk
    \/ LsRecv
    \/ DeleteAllRecv
    \/ DeleteAllWait
    \/ \E task \in tasks : FsDeleteRun(task)

SpecStart == InitStart /\ [][NextStart]_vars

(***************************************************************************)
(* SpecApp: the scan with a consumer that deletes: the interactive app,    *)
(* or delete_all.  The app puts the terminal in raw mode (app.rs 67-71),   *)
(* where ctrl-c is a key event and raises no SIGINT, so the flag is        *)
(* cleared under delete_all only.                                          *)
(***************************************************************************)
\* a project p with its manifest and a target which is a file, or a directory
\* with a debug that can or cannot be read; or p and a second project q, with
\* the target of p a file, a directory with a file in it, or a directory with
\* a debug that cannot be read
TreesApp ==
    LET base == (Entry :> Dir) @@ (<< <<"x">> >> :> Dir) @@ (pP :> Dir)
                    @@ ((pP \o <<nCargo>>) :> File)
        t == pP \o <<nTarget>>
    IN { base @@ (t :> File),
         base @@ (t :> File) @@ SecondProject,
         base @@ (t :> Dir) @@ ((t \o <<nDebug>>) :> Dir),
         base @@ (t :> Dir) @@ ((t \o <<nDebug>>) :> Locked),
         base @@ (t :> Dir) @@ ((t \o <<nDebug>>) :> Locked) @@ SecondProject,
         base @@ (t :> Dir) @@ ((t \o <<nCargo>>) :> File) @@ SecondProject }

\* the rules with two purge paths go with the trees of one project
ConfigsApp ==
    {c \in TreesApp \X AppRulePool :
        pQ \in DOMAIN c[1] => c[2] = <<"target", "@", "Cargo", ".toml">>}

InitApp ==
    \E c \in ConfigsApp, m \in {"interactive", "delete_all"} :
        Start(c[1], <<c[2]>>, {}, FALSE, m)

NextApp ==
    \/ \E i \in 1..Len(iter) : ReadDirStart(i)
    \/ \E i \in 1..Len(iter) : ReadDirFinish(i)
    \/ WalkNext
    \/ WalkPurge
    \/ WalkEnd
    \/ mode = "delete_all" /\ Cancel
    \/ \E key \in Keys : KeyPress(key)
    \/ HandleNextMessage
    \/ \E task \in tasks : AppDeleteRun(task)
    \/ DeleteAllRecv
    \/ DeleteAllWait
    \/ \E task \in tasks : FsDeleteRun(task)

SpecApp == InitApp /\ [][NextApp]_vars

\* deletions dispatched by the app in one run
MaxDispatch == 2

TaskIds == 1..MaxDispatch

\* the pool thread that took the k-th closure runs it
AppTaskRun(k) == \E task \in tasks : task.id = k /\ AppDeleteRun(task)

\* LiveApp: SpecApp where every closure handed to the pool is run: the pool
\* takes the closures from its queue in order and remove_dir_all returns
LiveApp == SpecApp /\ \A k \in TaskIds : WF_vars(AppTaskRun(k))

(***************************************************************************)
(* Claims about the scan alone (SpecWalk)                                  *)
(***************************************************************************)
RuleIndices(id) == {i \in 1..Len(config.rules) : config.rules[i].id = id}

\* the names in directory d that are not excluded
VisibleNames(d) == {file_name(c) : c \in ChildrenOf(fs, d)} \ config.exclude

\* an entry of d that is not excluded matches a detector glob of the rule
DetectorFiresIn(rule, d) ==
    \E n \in VisibleNames(d) :
        \E i \in 1..Len(rule.detects) : PatternMatches(rule.detects[i], n)

AddPathsSent == {k \in 1..Len(sent) : sent[k].msg.type = "AddPath"}

\* C1: an AddPath whose rule has detectors is produced for a trigger child of
\* directory d only if an entry of d itself that is not excluded matches one of
\* the rule's detector globs; manifests in other directories do not count.
C1_DetectorInSameDir ==
    \A k \in AddPathsSent :
        \A i \in RuleIndices(sent[k].msg.item.rule_id) :
            \/ no_detect(config.rules[i])
            \/ DetectorFiresIn(config.rules[i], Parent(sent[k].entry))

\* C1 witness: a finished scan that produced an AddPath under a rule with
\* detectors while another directory holds a manifest too
C1_Witness ==
    /\ wpc = "done"
    /\ \E k \in AddPathsSent :
           \E i \in RuleIndices(sent[k].msg.item.rule_id) : ~no_detect(config.rules[i])
    /\ \E p \in DOMAIN fs : file_name(p) = nCargo /\ Parent(p) # pP

\* rule i of the configuration qualifies for the child named n of directory d
Qualifies(i, n, d) ==
    /\ n \in DOMAIN config.rules[i].targets
    /\ (no_detect(config.rules[i]) \/ DetectorFiresIn(config.rules[i], d))

FirstQualifying(n, d) ==
    CHOOSE i \in 1..Len(config.rules) :
        Qualifies(i, n, d) /\ \A j \in 1..(i - 1) : ~Qualifies(j, n, d)

BoundToFirst(path, rule_id, purges) ==
    LET n == file_name(path)
        d == Parent(path)
    IN (\E i \in 1..Len(config.rules) : Qualifies(i, n, d))
       => /\ rule_id = config.rules[FirstQualifying(n, d)].id
          /\ purges = config.rules[FirstQualifying(n, d)].targets[n]

\* C2: when several rules qualify for the same trigger name in a directory, the
\* matcher binds the name to the one that comes first in the configuration, and
\* the AddPath carries that rule's id and purge paths.
C2_FirstRuleWins ==
    /\ \A k \in 1..Len(iter) :
           (iter[k].t = "entry" /\ IsSome(iter[k].client_state))
           => BoundToFirst(iter[k].path, iter[k].client_state[1][1],
                           iter[k].client_state[1][2])
    /\ wpc = "purge" => BoundToFirst(cur.path, cur.rule_id, cur.purges)
    /\ \A k \in AddPathsSent :
           (\E i \in 1..Len(config.rules) :
               Qualifies(i, file_name(sent[k].entry), Parent(sent[k].entry)))
           => sent[k].msg.item.rule_id =
                  config.rules[FirstQualifying(file_name(sent[k].entry),
                                               Parent(sent[k].entry))].id

\* C5: no AddPath has an excluded name as a segment of its relative path.
C5_NoExcludedSegment ==
    \A k \in AddPathsSent :
        \A j \in 1..Len(sent[k].msg.item.relative_path) :
            sent[k].msg.item.relative_path[j] \notin config.exclude

(***************************************************************************)
(* Claims about the scan with its consumer and the ctrl-c handler (Spec)   *)
(***************************************************************************)
DoneSearchesSent == {k \in 1..Len(sent) : sent[k].msg.type = "DoneSearch"}

\* the sends of the search thread after the flag was cleared
SentAfterCancel == {k \in 1..Len(sent) : ~sent[k].running}

\* the flag was cleared while the scan was under way
CancelledInScan == IsSome(cancelAt) /\ cancelAt[1].wpc # "done"

\* C3: however the scan ends, the search thread has sent exactly one
\* DoneSearch: never two, and one by the time it returns.
C3_ExactlyOneDoneSearch ==
    /\ Cardinality(DoneSearchesSent) <= 1
    /\ wpc = "done" => Cardinality(DoneSearchesSent) = 1

NoAddPathAfterDone(log) ==
    \A i, j \in 1..Len(log) :
        (i < j /\ log[i].type = "DoneSearch") => log[j].type # "AddPath"

\* C4: DoneSearch is the last message of the search thread, and the consumer
\* receives no AddPath after DoneSearch: neither among the messages it has
\* received nor among those still queued behind them.
C4_DoneSearchLast ==
    /\ \A k \in DoneSearchesSent : k = Len(sent)
    /\ NoAddPathAfterDone(recvd \o chan)

\* C4 witness: the consumer has received AddPath and then DoneSearch
C4_Witness ==
    \E i, j \in 1..Len(recvd) :
        i < j /\ recvd[i].type = "AddPath" /\ recvd[j].type = "DoneSearch"

C7_BoundedThenDone ==
    (CancelledInScan /\ wpc = "done") =>
        /\ Cardinality(SentAfterCancel \cap AddPathsSent) <= cancelAt[1].inflight
        /\ Cardinality(DoneSearchesSent) = 1

(***************************************************************************)
(* Claims about the consumers that delete (SpecApp)                        *)
(***************************************************************************)
AnnouncedBefore(j, path) ==
    \E i \in 1..(j - 1) : recvd[i].type = "AddPath" /\ recvd[i].item.path = path

\* C8: every SetPathDeleted(p) the consumer receives comes after an AddPath
\* with absolute path p in its receive order, and every path handed to the
\* pool for deletion had been received in an AddPath.
C8_DeletedWasAnnounced ==
    /\ \A j \in 1..Len(recvd) :
           recvd[j].type = "SetPathDeleted" => AnnouncedBefore(j, recvd[j].path)
    /\ \A k \in 1..Len(spawned) : AnnouncedBefore(Len(recvd) + 1, spawned[k].path)

\* C8 witness: the app has received the SetPathDeleted of a deletion it
\* dispatched
C8_Witness ==
    /\ mode = "interactive"
    /\ \E j \in 1..Len(recvd) : \E k \in 1..Len(spawned) :
           recvd[j].type = "SetPathDeleted" /\ recvd[j].path = spawned[k].path

\* a key event that requests the deletion of the selected item: ' ', or 'd'
\* after 'd'
DeleteRequest ==
    \/ KeyPress(" ")
    \/ app.last_keycode = Some("d") /\ KeyPress("d")

HasSelectedItem == IsSome(app.selected) /\ app.selected[1] < Len(app.items)

DeleteRequestEffect ==
    LET index == app.selected[1] + 1
        item == app.items[index]
    IN IF item.state = "Normal" /\ IsSome(item.size)
       THEN /\ app'.items = [app.items EXCEPT ![index].state = "StartDeleting"]
            /\ spawned' = Append(spawned, [path |-> item.path, item |-> item.uid])
            /\ \E task \in tasks' \ tasks : task.path = item.path
       ELSE /\ app'.items = app.items
            /\ spawned' = spawned
            /\ tasks' = tasks

DispatchedOnce ==
    \A k1, k2 \in 1..Len(spawned) :
        (spawned[k1].item # 0 /\ spawned[k1].item = spawned[k2].item) => k1 = k2

\* C9: a delete request on the selected item makes it StartDeleting and hands
\* its absolute path to the pool exactly when it is Normal with a known size,
\* and otherwise changes no item and dispatches nothing; no item of the list
\* is dispatched twice.
C9_DeleteRequest ==
    /\ [][(DeleteRequest /\ HasSelectedItem) => DeleteRequestEffect]_vars
    /\ []DispatchedOnce

\* C9 witness: a delete request by ' ' on an item whose deletion had been
\* dispatched: the item selected is not Normal and is in the log of dispatches
C9_Witness ==
    /\ mode = "interactive"
    /\ app.last_keycode = Some(" ")
    /\ HasSelectedItem
    /\ app.items[app.selected[1] + 1].state = "Deleted"
    /\ \E k \in 1..Len(spawned) : spawned[k].item = app.items[app.selected[1] + 1].uid

StateRank(state) ==
    CASE state = "Normal" -> 0 [] state = "StartDeleting" -> 1 [] state = "Deleted" -> 2

\* C10: over every key event and every message, each item of the list stays
\* in the list and its state never moves back along Normal, StartDeleting,
\* Deleted; a Deleted item stays Deleted.
C10_Monotone ==
    [][\A i \in 1..Len(app.items) :
           \E j \in 1..Len(app'.items) :
               /\ app'.items[j].uid = app.items[i].uid
               /\ StateRank(app'.items[j].state) >= StateRank(app.items[i].state)]_vars

\* C10 witness: an item went from Normal through StartDeleting to Deleted and
\* a delete-all was requested afterwards
C10_Witness ==
    /\ mode = "interactive"
    /\ app.last_keycode = Some("d")
    /\ \E i \in 1..Len(app.items) :
           /\ app.items[i].state = "Deleted"
           /\ \E k \in 1..Len(spawned) : spawned[k].item = app.items[i].uid
    /\ Len(spawned) > 1

(***************************************************************************)
(* Claims about the delete workers of the app (SpecApp, LiveApp)           *)
(***************************************************************************)
AppTasks == {task \in tasks : task.kind = "app"}

IsOutcome(msg) == msg.type \in {"SetPathDeleted", "PutError"}

\* the outcome messages for a path, received or queued
Outcomes(path) ==
    LET log == recvd \o chan
    IN {i \in 1..Len(log) : IsOutcome(log[i]) /\ log[i].path = path}

\* the dispatches of a path whose closure has run
Completed(path) ==
    {k \in 1..Len(spawned) :
        spawned[k].path = path /\ \A task \in tasks : task.id # k}

Panicked(path) == {k \in panics : spawned[k].path = path}

\* every closure that has run has sent one message or, the Receiver gone,
\* has panicked
OneOutcomeEach ==
    mode = "interactive" =>
        \A k \in 1..Len(spawned) :
            Cardinality(Outcomes(spawned[k].path))
                + Cardinality(Panicked(spawned[k].path))
                    = Cardinality(Completed(spawned[k].path))

\* a step in which a closure of the app ends while the Receiver lives: one
\* message is queued, SetPathDeleted(path) if the removal has removed the
\* path and PutError(path) if it has left the file system as it was
OutcomeOfStep ==
    \A task \in AppTasks :
        (task \notin tasks' /\ rxOpen) =>
            /\ Len(chan') = Len(chan) + 1
            /\ \A i \in 1..Len(chan) : chan'[i] = chan[i]
            /\ IF RemoveOk(fs, task.path)
               THEN /\ chan'[Len(chan')] = SetPathDeleted(task.path)
                    /\ ~exists(fs', task.path)
               ELSE /\ chan'[Len(chan')] = PutError(task.path)
                    /\ fs' = fs

\* C11: a deletion handed to the pool while the channel is open ends with
\* exactly one message, SetPathDeleted(path) if the removal succeeded and
\* PutError for the path if it failed, and every such deletion does end.
C11_OneOutcomePerTask ==
    /\ []OneOutcomeEach
    /\ [][OutcomeOfStep]_vars
    /\ \A k \in TaskIds :
           (\E task \in AppTasks : task.id = k) ~> (\A task \in AppTasks : task.id # k)

\* C11 witness: one deletion has reported SetPathDeleted and another PutError
C11_Witness ==
    /\ mode = "interactive"
    /\ rxOpen
    /\ \E i, j \in 1..Len(recvd) :
           recvd[i].type = "SetPathDeleted" /\ recvd[j].type = "PutError"

\* the app receives a PutError in this step
ReceivesPutError ==
    /\ mode = "interactive"
    /\ chan # <<>>
    /\ Head(chan).type = "PutError"
    /\ recvd' = Append(recvd, Head(chan))

PutErrorReceived == \E i \in 1..Len(recvd) : recvd[i].type = "PutError"

\* C12: receiving PutError changes the error text and nothing else of the app:
\* every item, total_size and total_saved_size stay as they were, the other
\* closures stay queued, and each of them still runs to its own outcome.
C12_FailureIsIsolated ==
    /\ [][ReceivesPutError =>
             /\ app' = [app EXCEPT !.error = Some(Head(chan).path)]
             /\ app'.items = app.items
             /\ app'.total_size = app.total_size
             /\ app'.total_saved_size = app.total_saved_size
             /\ tasks' = tasks /\ fs' = fs]_vars
    /\ \A k \in TaskIds :
           (PutErrorReceived /\ \E task \in AppTasks : task.id = k)
               ~> (\A task \in AppTasks : task.id # k)
    /\ [](PutErrorReceived => OneOutcomeEach)

\* C12 witness: a PutError was received for one path while another deletion
\* was under way, and that one then reported SetPathDeleted
C12_Witness ==
    /\ mode = "interactive"
    /\ \E i, j \in 1..Len(recvd) :
           /\ i < j
           /\ recvd[i].type = "PutError"
           /\ recvd[j].type = "SetPathDeleted"
           /\ recvd[i].path # recvd[j].path
    /\ \E i \in 1..Len(app.items) : app.items[i].state = "Deleted"
    /\ \E i \in 1..Len(app.items) : app.items[i].state = "StartDeleting"

(***************************************************************************)
(* Claims about the filters (SpecFilter)                                   *)
(***************************************************************************)
\* the filter (expect, order), if set, holds of the measurement
PassesFilter(filter, measured) ==
    IsSome(filter) =>
        IsSome(measured) /\ compare(filter[1][2], filter[1][1], measured[1])

PassesSizeFilter(filter, measured) ==
    IsSome(filter) =>
        IsSome(measured) /\ compare_u64(filter[1][2], filter[1][1], BitsOfInt(measured[1]))

InDays(time) == IF IsSome(time) THEN Some(CeilDays(time[1])) ELSE None

\* C13: every AddPath sent satisfies every filter that is set: its age in
\* ceiling-days passes the age filter and its size in bytes the size filter;
\* a candidate whose measurement failed does not satisfy a filter.
C13_FiltersGate ==
    \A k \in AddPathsSent :
        /\ PassesFilter(config.time, InDays(sent[k].msg.item.time))
        /\ PassesSizeFilter(config.size, sent[k].msg.item.size)

(***************************************************************************)
(* More claims about the scan alone (SpecWalk)                             *)
(***************************************************************************)
\* C14: the absolute path of every AddPath exists and is a directory when the
\* message is sent; a regular file named as a trigger is never sent as a
\* purge target.
C14_EmitsDirectories ==
    \A k \in AddPathsSent :
        /\ exists(fs, sent[k].msg.item.path)
        /\ fs[sent[k].msg.item.path].kind # "file"

(***************************************************************************)
(* Claims about the parsing of rules (SpecRules)                           *)
(***************************************************************************)
\* the text of the rule before its first '@': the purge list
PurgeListText(id) == IF IsSome(split_once(id, "@")) THEN split_once(id, "@")[1][1] ELSE id

\* C15: a rule string with an empty purge list, that is the empty string or
\* a string with nothing before '@', is rejected: no rule of the
\* configuration comes from such a string.
C15_EmptyPurgeListRejected ==
    \A i \in 1..Len(config.rules) : PurgeListText(config.rules[i].id) # <<>>

(***************************************************************************)
(* Claims about what --print prints (Spec)                                 *)
(***************************************************************************)
AnyQualifies(n, d) == \E i \in 1..Len(config.rules) : Qualifies(i, n, d)

\* the directories the walk visits: the scan root, and the children of a
\* visited directory that were not matched as a trigger there
VisitedDirs ==
    {d \in DOMAIN fs :
        /\ IsPrefix(Entry, d)
        /\ fs[d].kind # "file"
        /\ \A k \in (Len(Entry) + 1)..Len(d) : ~AnyQualifies(d[k], SubSeq(d, 1, k - 1))}

\* the purge paths of the rule that is first in the configuration among
\* those that qualify for child c of its directory, resolved below c
ResolvedPurges(c) ==
    LET n == file_name(c)
        purges == config.rules[FirstQualifying(n, Parent(c))].targets[n]
    IN {ResolvePurge(c, purges[j]) : j \in 1..Len(purges)}

ExpectedPrinted ==
    UNION {{path \in ResolvedPurges(c) : exists(fs, path)} :
              c \in {c \in DOMAIN fs :
                        /\ c # Entry
                        /\ Parent(c) \in VisitedDirs
                        /\ AnyQualifies(file_name(c), Parent(c))}}

\* C16: with no filter, no exclusion and no cancellation, when --print has
\* ended the paths printed are exactly the existing resolved purge paths of
\* the qualifying children of the visited directories.
C16_PrintedIsExpected ==
    (mode = "print" /\ cpc = "done" /\ ~IsSome(cancelAt))
        => {printed[i] : i \in 1..Len(printed)} = ExpectedPrinted

(***************************************************************************)
(* Claims about rules without detectors (SpecWalk)                         *)
(***************************************************************************)
\* the rules without detectors that have n as a trigger name
NoDetectRulesFor(n) ==
    {i \in 1..Len(config.rules) :
        no_detect(config.rules[i]) /\ n \in DOMAIN config.rules[i].targets}

\* C17: a child of a visited directory whose name is a trigger name of a rule
\* without detectors is matched whatever its siblings are, and every AddPath
\* with the id of a rule without detectors has a trigger name of that rule as
\* its trigger segment.
C17_NoDetectRule ==
    /\ \A k \in 1..Len(iter) :
           (/\ iter[k].t = "entry"
            /\ iter[k].path # Entry
            /\ file_name(iter[k].path) \notin config.exclude
            /\ NoDetectRulesFor(file_name(iter[k].path)) # {})
           => IsSome(iter[k].client_state)
    /\ \A k \in AddPathsSent :
           \A i \in RuleIndices(sent[k].msg.item.rule_id) :
               no_detect(config.rules[i])
                   => file_name(sent[k].entry) \in DOMAIN config.rules[i].targets

\* C17 witness: an AddPath for a rule without detectors whose trigger is the
\* only entry of its directory
C17_Witness ==
    \E k \in AddPathsSent :
        /\ \E i \in RuleIndices(sent[k].msg.item.rule_id) : no_detect(config.rules[i])
        /\ ChildrenOf(fs, Parent(sent[k].entry)) = {sent[k].entry}

(***************************************************************************)
(* Claims about the end of the process (Spec)                              *)
(***************************************************************************)
\* C18: when the scan aborts on a path that does not strip to the scan root,
\* the process ends: the consumer on the main thread, --print or
\* --delete-all, is never left waiting for a message while no thread of the
\* process can take a step any more.
C18_AbortEndsProcess == (result = "err" /\ cpc # "done") => ENABLED Next

\* C19: once the Receiver has been dropped, every producer ends normally at
\* its failed send: a send of the search thread that fails ends the scan,
\* and no closure of the pool panics.
C19_ProducersEndNormally ==
    [][~rxOpen => /\ panics' = panics
                  /\ Len(sent') > Len(sent) => wpc' = "done"]_vars

(***************************************************************************)
(* Claims about what a detector glob is matched against (SpecDetect)       *)
(***************************************************************************)
\* the names of the files in directory d that are not excluded
VisibleFileNames(d) ==
    {file_name(c) : c \in {e \in ChildrenOf(fs, d) : fs[e].kind = "file"}}
        \ config.exclude

\* C20: an AddPath whose rule has detectors is produced for a trigger child
\* of directory d only if a file of d matches one of the rule's detector
\* globs; a directory of d whose name matches, the trigger directory
\* included, does not make the detector fire.
C20_DetectorsSeeFilesOnly ==
    \A k \in AddPathsSent :
        \A i \in RuleIndices(sent[k].msg.item.rule_id) :
            \/ no_detect(config.rules[i])
            \/ \E n \in VisibleFileNames(Parent(sent[k].entry)) :
                   \E j \in 1..Len(config.rules[i].detects) :
                       PatternMatches(config.rules[i].detects[j], n)

(***************************************************************************)
(* Claims about the command line (SpecStart)                               *)
(***************************************************************************)
\* a rule string of the command line does not parse, -t or -s is no
\* predicate, or --cwd is no existing directory
BadCommandLine ==
    \/ \E i \in 1..Len(args.rules) : ~IsSome(from_str(args.rules[i]))
    \/ IsSome(args.time) /\ ~IsSome(parse_usize(extract_order(args.time[1])[2]))
    \/ IsSome(args.size) /\ ~IsSome(parse_size(extract_order(args.size[1])[2]))
    \/ ~is_existing_directory(fs, args.cwd)

\* C21: with a rule string that does not parse, a -t or -s that is no
\* predicate, or a --cwd that is no existing directory, start returns an
\* error before it spawns the search thread: the walk never begins, no
\* message is ever sent and no removal is dispatched.
C21_ErrorsBeforeScan ==
    BadCommandLine =>
        /\ wpc \in {"args", "failed"}
        /\ wpc = "failed" => result = "err"
        /\ iter = <<>> /\ sent = <<>> /\ chan = <<>>
        /\ spawned = <<>> /\ tasks = {}

\* C21 witness: start has returned an error for a command line whose rules
\* parse and whose --cwd is a file
C21_Witness ==
    /\ wpc = "failed"
    /\ result = "err"
    /\ \A i \in 1..Len(args.rules) : IsSome(from_str(args.rules[i]))
    /\ args.cwd \in DOMAIN fs /\ fs[args.cwd].kind = "file"

(***************************************************************************)
(* Claims about a parsed rule (SpecRules)                                  *)
(***************************************************************************)
\* the purge paths of a rule string as written: the text before the first
\* '@', without the blanks around it, cut at the commas
PurgePathsWritten(id) ==
    IF IsSome(split_once(id, "@")) THEN split(trim(PurgeListText(id)), ",")
    ELSE split(id, ",")

\* the longest beginning of a path without '/'
HeadSegment(path) ==
    LET k == CHOOSE n \in 0..Len(path) :
                 /\ \A i \in 1..n : path[i] # "/"
                 /\ n = Len(path) \/ path[n + 1] = "/"
    IN SubSeq(path, 1, k)

\* names to look up: the heads themselves, and names that begin or end
\* with one, differ in case, or are a whole path
ProbeNames(id) ==
    LET heads == {HeadSegment(PurgePathsWritten(id)[i]) :
                     i \in 1..Len(PurgePathsWritten(id))}
    IN heads \cup {h \o <<"-">> : h \in heads} \cup {<<"-">> \o h : h \in heads}
             \cup {PurgePathsWritten(id)[i] : i \in 1..Len(PurgePathsWritten(id))}
             \cup {<<"Target">>, <<"debug">>, <<>>}

\* C22: check_target(name) of a parsed rule returns a purge list when and
\* only when name is exactly the head segment of a purge path of the rule,
\* and the list holds the purge paths with that head, whole and in the order
\* written; a bare name maps to itself.
C22_TriggerLookupExact ==
    \A i \in 1..Len(config.rules) :
        \A name \in ProbeNames(config.rules[i].id) :
            LET written == PurgePathsWritten(config.rules[i].id)
                with_head == SelectSeq(written, LAMBDA t : HeadSegment(t) = name)
            IN check_target(config.rules[i], name) =
                   IF with_head = <<>> THEN None ELSE Some(with_head)

\* C22 witness: a parsed rule with a bare purge path and a nested one under
\* the same head
C22_Witness ==
    \E i \in 1..Len(config.rules) :
        /\ check_target(config.rules[i], <<"target">>)
               = Some(<< <<"target">>, <<"target", "/", "debug">> >>)
        /\ check_target(config.rules[i], <<"target", "/", "debug">>) = None

(***************************************************************************)
(* Claims about the predicates of -t and -s (SpecStart)                    *)
(***************************************************************************)
\* the comparison that the text of a predicate asks for, by its first
\* character
OrderWritten(text) ==
    IF text # <<>> /\ text[1] = "+" THEN "Greater"
    ELSE IF text # <<>> /\ text[1] = "-" THEN "Less"
    ELSE "Equal"

\* m against 1, as the text of a predicate on 1 asks
HoldsAgainstOne(text, m) ==
    CASE OrderWritten(text) = "Greater" -> m > 1
      [] OrderWritten(text) = "Less" -> m < 1
      [] OTHER -> m = 1

\* the one candidate of the trees of SpecStart
Candidate == pP \o <<nTarget>>

\* every predicate that is set has its measurement
CandidateMeasured ==
    /\ IsSome(args.time) => IsSome(last_modified(fs, Candidate))
    /\ IsSome(args.size) => IsSome(du(fs, Candidate))

\* C23: '+' is read as more than, '-' as less than and neither as exactly;
\* a candidate with measured age m in ceiling-days and measured size s is
\* reported when and only when m compares with the value of -t and s with
\* the value of -s as written: -t +1 keeps only what is older than 1 day.
C23_ComparatorSemantics ==
    /\ wpc \notin {"args", "failed"} =>
           /\ IsSome(args.time) => config.time[1][2] = OrderWritten(args.time[1])
           /\ IsSome(args.size) => config.size[1][2] = OrderWritten(args.size[1])
    /\ ( /\ wpc = "done" /\ result = "ok" /\ mode = "print"
         /\ args.time \in Filters /\ args.size \in Filters
         /\ CandidateMeasured ) =>
           ( (\E k \in AddPathsSent : sent[k].msg.item.path = Candidate)
             <=> /\ IsSome(args.time) =>
                        HoldsAgainstOne(args.time[1],
                                        CeilDays(last_modified(fs, Candidate)[1]))
                 /\ IsSome(args.size) =>
                        HoldsAgainstOne(args.size[1], du(fs, Candidate)[1]) )

\* C23 witness: the scan is over with -t +1 and -s -1: the empty candidate
\* of 2 days has been reported
C23_Witness ==
    /\ wpc = "done" /\ result = "ok" /\ mode = "print"
    /\ args.time = Some(<<"+", "1">>) /\ args.size = Some(<<"-", "1">>)
    /\ fs[Candidate].age = Some(86401)
    /\ \E k \in AddPathsSent : sent[k].msg.item.path = Candidate

\* the text of -s without its sign, as <<numeral, unit>>
SizeWritten ==
    LET text == IF args.size[1][1] \in {"+", "-"} THEN Tail(args.size[1]) ELSE args.size[1]
        units == IF text[Len(text)] \in {"K", "M", "G", "T"} THEN 1 ELSE 0
    IN <<SubSeq(text, 1, Len(text) - units), SubSeq(text, Len(text) - units + 1, Len(text))>>

\* the power of 1024 a unit stands for
UnitPower(unit) ==
    CASE unit = <<>> -> 0
      [] unit = <<"K">> -> 1
      [] unit = <<"M">> -> 2
      [] unit = <<"G">> -> 3
      [] unit = <<"T">> -> 4

\* n * 1024^k, in bits
TimesUnit(n, k) == IF n = <<>> THEN <<>> ELSE n \o Zeros(10 * k)

\* C24: for every numeral n and unit with n * 1024^k in the range of u64,
\* the size stored for -s is n * 1024^k: n for no unit, n * 1024 for K,
\* n * 1024^2 for M, n * 1024^3 for G, n * 1024^4 for T.
C24_SizeBase1024 ==
    (wpc \notin {"args", "failed"} /\ args.size \in SizeArgs) =>
        LET n == BitsOfNumeral(SizeWritten[1])
            k == UnitPower(SizeWritten[2])
        IN Len(TimesUnit(n, k)) <= U64Bits => config.size[1][1] = TimesUnit(n, k)

(***************************************************************************)
(* Claims about what the walk descends into (SpecDetect)                   *)
(***************************************************************************)
\* the listings that are queued or being read in iterator it
Listings(it) == {it[i].path : i \in {j \in 1..Len(it) : it[j].t = "dir"}}

\* the entries of iterator it that the matcher has bound to a rule
BoundEntries(it) ==
    {it[i].path : i \in {j \in 1..Len(it) : it[j].t = "entry"
                                             /\ IsSome(it[j].client_state)}}

\* no listing that this step has queued is that of an entry the matcher has
\* bound in this step or earlier, or lies below one
NoDescentIntoBound ==
    \A d \in Listings(iter') \ Listings(iter) :
        \A e \in BoundEntries(iter') \cup BoundEntries(iter) : ~IsPrefix(e, d)

\* C25: the walk never queues the listing of a directory that the matcher
\* has bound to a rule, so the matcher is never run on it or below it, and
\* no AddPath has its trigger directory inside the trigger directory of
\* another one or inside a bound entry still to be consumed; whether the
\* purge paths of the bound entry are reported or skipped makes no
\* difference.
C25_BoundIsPruned ==
    /\ [](\A k \in AddPathsSent :
             /\ \A l \in AddPathsSent :
                    sent[k].entry = sent[l].entry \/ ~IsPrefix(sent[l].entry, sent[k].entry)
             /\ \A e \in BoundEntries(iter) : ~IsPrefix(e, sent[k].entry)
             /\ \A d \in Listings(iter) : ~IsPrefix(sent[k].entry, d))
    /\ [][NoDescentIntoBound]_vars

\* C25 witness: the scan is over, target holds a directory target of its
\* own, the rule is "target/\x" whose purge path does not exist, and
\* nothing was reported
C25_Witness ==
    /\ wpc = "done"
    /\ config.rules[1].id = <<"target", "/", "\\", "x">>
    /\ (pP \o <<nTarget, nTarget>>) \in DOMAIN fs
    /\ AddPathsSent = {}

(***************************************************************************)
(* Claims about excluded names (SpecExclude)                               *)
(***************************************************************************)
\* a directory below the scan root on the way to path, path itself left
\* out, has an excluded name
BelowExcluded(path) ==
    \E i \in (Len(Entry) + 1)..(Len(path) - 1) : path[i] \in config.exclude

\* C26: an excluded name is nothing to the matcher and nothing below an
\* excluded directory is read: no AddPath is for a trigger with an excluded
\* name or for one below an excluded directory, a rule with detectors
\* reports only beside an entry that is not excluded and matches a detector,
\* and the walk lists no excluded directory and yields nothing from below
\* one; so 'target@Cargo.toml' with the only project excluded reports
\* nothing.
C26_ExcludedInvisible ==
    /\ \A k \in AddPathsSent :
           /\ file_name(sent[k].entry) \notin config.exclude
           /\ ~BelowExcluded(sent[k].entry)
           /\ \A i \in RuleIndices(sent[k].msg.item.rule_id) :
                  \/ no_detect(config.rules[i])
                  \/ DetectorFiresIn(config.rules[i], Parent(sent[k].entry))
    /\ \A i \in 1..Len(iter) :
           /\ ~BelowExcluded(iter[i].path)
           /\ (iter[i].t = "dir" /\ iter[i].path # Entry) =>
                  file_name(iter[i].path) \notin config.exclude
           /\ (iter[i].t = "entry" /\ IsSome(iter[i].client_state)) =>
                  file_name(iter[i].path) \notin config.exclude
    /\ ( /\ config.exclude = {<<"p">>}
         /\ ~no_detect(config.rules[1])
         /\ \A d \in DOMAIN fs : (file_name(d) = nCargo /\ Len(d) > Len(Entry) + 1) =>
                                     d[Len(d) - 1] = <<"p">> ) => AddPathsSent = {}

\* C26 witness: the scan is over under 'target@Cargo.toml' with p excluded,
\* over a tree with p, a target in q that has no manifest and a project p
\* inside q
C26_Witness ==
    /\ wpc = "done"
    /\ config.exclude = {<<"p">>}
    /\ ~no_detect(config.rules[1])
    /\ (pQ \o << <<"p">>, nTarget >>) \in DOMAIN fs
    /\ AddPathsSent = {}

(***************************************************************************)
(* Claims about nested purge paths (SpecWalk)                              *)
(***************************************************************************)
\* the segments of a purge path after its head; an empty segment names
\* nothing
TailSegments(purge) == SelectSeq(Tail(split(purge, "/")), LAMBDA part : part # <<>>)

\* the path the claim names: the trigger directory, then the tail segments
Candidate27 == cur.path \o TailSegments(cur.purges[pi])

\* C27: one turn of the purge loop for trigger directory D and purge path
\* head/s1/../sk looks at D/s1/../sk: with no age or size filter it sends an
\* AddPath for exactly that path when it exists and sends nothing when it
\* does not, and in both cases goes on to the next purge path of D, without
\* ending the scan.
C27_NestedPurgeResolved ==
    [][(wpc = "purge" /\ pi' # pi) =>
          /\ result' = result
          /\ pi < Len(cur.purges) => (wpc' = "purge" /\ cur' = cur /\ pi' = pi + 1)
          /\ (config.time = None /\ config.size = None) =>
                 IF exists(fs, Candidate27)
                 THEN /\ Len(sent') = Len(sent) + 1
                      /\ sent'[Len(sent')].msg.type = "AddPath"
                      /\ sent'[Len(sent')].msg.item.path = Candidate27
                 ELSE sent' = sent]_vars

(***************************************************************************)
(* Claims about rules with nested purge paths only (SpecDetect)            *)
(***************************************************************************)
\* every purge path of the rule is nested: head/tail
OnlyNested(rule) ==
    \A k \in DOMAIN rule.targets :
        \A i \in 1..Len(rule.targets[k]) : IsSome(split_once(rule.targets[k][i], "/"))

\* C28: under a rule whose purge paths are all nested, the walk never queues
\* the listing of a directory that carries the name of the head of one of
\* them, whether the rule's detector fires beside that directory or not.
C28_HeadPrunedAlways ==
    \A i \in 1..Len(config.rules) :
        OnlyNested(config.rules[i]) =>
            \A d \in Listings(iter) \ {Entry} :
                file_name(d) \notin DOMAIN config.rules[i].targets

(***************************************************************************)
(* Claims about delete_all and its removal tasks (Spec)                    *)
(***************************************************************************)
\* the paths of the AddPath messages among msgs, in order
AddPathPaths(msgs) ==
    LET adds == SelectSeq(msgs, LAMBDA m : m.type = "AddPath")
    IN [k \in 1..Len(adds) |-> adds[k].item.path]

\* C29: delete_all has returned only when no removal it dispatched is still
\* running, cancelled or not; it dispatches one removal per AddPath it
\* receives, for that path and in that order, and receives nothing once it
\* has received DoneSearch.
C29_DeleteAllWaitsForTasks ==
    mode = "delete_all" =>
        /\ cpc = "done" => tasks = {}
        /\ [k \in 1..Len(spawned) |-> spawned[k].path] = AddPathPaths(recvd)
        /\ \A t \in tasks : t.kind = "fs" /\ t.id \in 1..Len(spawned)
                            /\ spawned[t.id].path = t.path
        /\ \A k \in 1..Len(recvd) : recvd[k].type = "DoneSearch" => k = Len(recvd)
        /\ cpc = "recv" <=> (recvd = <<>> \/ recvd[Len(recvd)].type # "DoneSearch")

\* C29 witness: the scan was cancelled, DoneSearch has been received and
\* delete_all is in wg.wait() while a removal it dispatched is still running
C29_Witness ==
    /\ mode = "delete_all"
    /\ IsSome(cancelAt)
    /\ cpc = "wait"
    /\ tasks # {}
    /\ recvd # <<>> /\ recvd[Len(recvd)].type = "DoneSearch"

(***************************************************************************)
(* Claims about the bulk delete of the app (SpecApp)                       *)
(***************************************************************************)
\* the key event 'a' after 'd'
BulkDelete == app.last_keycode = Some("d") /\ KeyPress("a")

\* a single-item delete request on every item of the list from index i on,
\* one after the other: the app and the paths dispatched
RECURSIVE DeleteEach(_, _)
DeleteEach(r, i) ==
    IF i >= Len(r.app.items) THEN r
    ELSE LET o == start_deleting_item([r.app EXCEPT !.selected = Some(i)])[1]
         IN DeleteEach([app |-> o.app, out |-> r.out \o o.out], i + 1)

\* the dispatches of this step that are for the item with that uid
DispatchedNow(uid) ==
    {k \in (Len(spawned) + 1)..Len(spawned') : spawned'[k].item = uid}

\* C30: the bulk delete leaves the list and the pool as a single-item delete
\* request on every item of the list in turn would: every item that was
\* Normal with a known size is StartDeleting and has been dispatched once,
\* with its absolute path, to a new task; every other item is unchanged and
\* has not been dispatched.
C30_BulkIsEachSingle ==
    [][BulkDelete =>
          LET each == DeleteEach([app |-> clear_tmp_state(app), out |-> <<>>], 0)
          IN /\ app'.items = each.app.items
             /\ spawned' = spawned \o each.out
             /\ Cardinality(tasks' \ tasks) = Len(spawned') - Len(spawned)
             /\ \A i \in 1..Len(app.items) :
                    LET item == app.items[i]
                    IN IF item.state = "Normal" /\ IsSome(item.size)
                       THEN /\ app'.items[i] = [item EXCEPT !.state = "StartDeleting"]
                            /\ \E k \in DispatchedNow(item.uid) :
                                   /\ DispatchedNow(item.uid) = {k}
                                   /\ spawned'[k].path = item.path
                                   /\ \E task \in tasks' \ tasks :
                                          task.id = k /\ task.path = item.path
                       ELSE /\ app'.items[i] = item
                            /\ DispatchedNow(item.uid) = {}]_vars

\* C30 witness: after 'd', an item that is Normal with a known size has been
\* dispatched and is StartDeleting, its removal still to run, while an item
\* of unknown size listed before it is Normal as it was and has never been
\* dispatched
C30_Witness ==
    /\ mode = "interactive"
    /\ app.last_keycode = Some("d")
    /\ \E i, j \in 1..Len(app.items) :
           /\ i < j
           /\ app.items[i].state = "Normal" /\ ~IsSome(app.items[i].size)
           /\ \A k \in 1..Len(spawned) : spawned[k].item # app.items[i].uid
           /\ app.items[j].state = "StartDeleting"
           /\ \E k \in 1..Len(spawned) :
                  /\ spawned[k].item = app.items[j].uid
                  /\ \E task \in tasks : task.id = k

(***************************************************************************)
(* Claims about the keys of the app (SpecApp)                              *)
(***************************************************************************)
\* C31: the key handler never panics: the selection of the list is None or
\* the index of an item of the list, the list empty or not, so that next,
\* previous and the delete request neither divide by zero nor index out of
\* bounds.
C31_NoPanicOnKeys ==
    mode = "interactive" =>
        /\ cpc # "panic"
        /\ IsSome(app.selected) => app.selected[1] < Len(app.items)

(***************************************************************************)
(* Claims about the outcome of a removal in the list of the app (SpecApp)  *)
(***************************************************************************)
\* no item of the list goes from Normal to Deleted in this step
NoJumpToDeleted ==
    \A i \in 1..Len(app.items) : \A j \in 1..Len(app'.items) :
        (app'.items[j].uid = app.items[i].uid /\ app.items[i].state = "Normal")
            => app'.items[j].state # "Deleted"

\* nothing is left to happen to the list: no removal runs, no message waits
Settled == mode = "interactive" /\ cpc = "recv" /\ tasks = {} /\ chan = <<>>

\* the removal of the item succeeded: SetPathDeleted has been received for
\* its path, and every removal dispatched for that path was the item's own
RemovalSucceeded(item) ==
    /\ \E k \in 1..Len(recvd) :
           recvd[k].type = "SetPathDeleted" /\ recvd[k].path = item.path
    /\ \A k \in 1..Len(spawned) :
           spawned[k].path = item.path => spawned[k].item = item.uid

\* C32: SetPathDeleted marks an item whose removal was dispatched: no item
\* goes from Normal straight to Deleted, and once every removal has run and
\* every message has been handled, no item whose removal succeeded is still
\* StartDeleting.
C32_OutcomeOnDispatchedItem ==
    /\ [][NoJumpToDeleted]_vars
    /\ [](Settled => \A i \in 1..Len(app.items) :
                         app.items[i].state = "StartDeleting" =>
                             ~RemovalSucceeded(app.items[i]))

(***************************************************************************)
(* Claims about the paths reported by one scan                             *)
(***************************************************************************)
\* C33: no two AddPath messages of a scan carry the same absolute path,
\* whatever the rules, a rule that names a purge path twice included.
C33_PathsReportedOnce ==
    \A k, l \in AddPathsSent :
        sent[k].msg.item.path = sent[l].msg.item.path => k = l

(***************************************************************************)
(* Claims about the walker beside the removals of delete_all (Spec)        *)
(***************************************************************************)
\* path is, or lies below, a path among the first n handed to the pool
Dispatched(path, n) == \E k \in 1..n : IsPrefix(spawned[k].path, path)

\* the walker resolves a purge path in this step: exists, last_modified, du
PurgeTurn == wpc = "purge" /\ pi' # pi

\* C34: under --delete-all a path is handed to the pool only after the
\* walker has sized and reported it, and from then on the walker neither
\* resolves a purge path at or below it nor has a listing at or below it
\* queued or running.
C34_WalkerClearOfRemovals ==
    [][mode = "delete_all" =>
          /\ \A k \in (Len(spawned) + 1)..Len(spawned') :
                 \E j \in AddPathsSent : sent[j].msg.item.path = spawned'[k].path
          /\ PurgeTurn =>
                 ~Dispatched(ResolvePurge(cur.path, cur.purges[pi]), Len(spawned))
          /\ \A d \in Listings(iter) \cup Listings(iter') :
                 ~Dispatched(d, Len(spawned))]_vars

(***************************************************************************)
(* Claims about the matcher as a function of the names (SpecRules)         *)
(***************************************************************************)
\* the names a directory may hold
SiblingNames == {<<"target">>, <<"debug">>, <<"Cargo", ".toml">>, <<"*">>}

NoSharedTrigger(c) ==
    \A i, j \in 1..Len(c.rules) :
        i # j => (DOMAIN c.rules[i].targets) \cap (DOMAIN c.rules[j].targets) = {}

\* the configurations with the rules of c in every order
RuleOrders(c) ==
    {[c EXCEPT !.rules = [i \in 1..Len(c.rules) |-> c.rules[o[i]]]] :
        o \in Orders(1..Len(c.rules))}

\* what the matcher returns for names fed in the order given, under
\* configuration c, for every order of iteration of its HashMap
MatcherOutputs(c, names) ==
    LET checker == CheckNames(CheckerNew, c, names)
    IN {to_matches(checker, c, order) : order \in HashOrders(checker)}

\* every mapping the matcher can return for the set S of names
MappingsFor(S) ==
    UNION {MatcherOutputs(c, names) : c \in RuleOrders(config), names \in Orders(S)}

\* C35: when no two rules share a trigger name, the mapping that the matcher
\* returns for a directory is one and the same for every order in which the
\* names are fed to it, every order of the rules and every order in which
\* to_matches visits them: it depends on the set of names alone.
C35_MatcherOrderIndependent ==
    (result = "none" /\ NoSharedTrigger(config)) =>
        \A S \in SUBSET SiblingNames : Cardinality(MappingsFor(S)) = 1

\* C35 witness: two rules with different triggers, and a directory where the
\* matcher binds a name to each of them
C35_Witness ==
    /\ result = "none"
    /\ Len(config.rules) = 2
    /\ NoSharedTrigger(config)
    /\ \E m \in MappingsFor(SiblingNames) : \E a, b \in DOMAIN m :
           m[a][1] = config.rules[1].id /\ m[b][1] = config.rules[2].id
                                        /\ m[a][1] # m[b][1]

====
